---- MODULE Spec2Model ----
(***************************************************************************)
(* A model of the memory-management core of the editor: the bump arena     *)
(* (stdext/src/arena/release.rs), the scratch-arena pair                   *)
(* (stdext/src/arena/scratch.rs), its debug borrow tracker                 *)
(* (stdext/src/arena/debug.rs) and the borrowed vector BVec                *)
(* (stdext/src/collections/vec.rs) with its buffer in an arena.            *)
(*                                                                         *)
(* Addresses are byte offsets relative to an arena's base.  Memory is kept *)
(* exactly, as a piecewise-constant map: a function from the offsets where *)
(* the byte value changes to the value that starts there.                  *)
(***************************************************************************)
EXTENDS Integers, Sequences, FiniteSets, TLC

VARIABLES
    debug,      \* cfg!(debug_assertions) of the build
    panic,      \* "" while running, else the message of the panic that ended the process
    arena,      \* the release::Arena under test (capacity, commit, offset, memory)
    live,       \* the ranges handed out by the arena and not yet discarded by a reset
    observed,   \* every value Arena::offset() has had so far
    vcommits,   \* the sizes passed to sys::virtual_commit so far, in call order
    last,       \* the last operation: its arguments, the arena before it, what it returned
    nops,       \* number of operations performed on the arena
    mode,       \* "single" (feature single-threaded) or "multi" (thread-local pairs)
    INIT_SIZE,  \* multi_threaded::INIT_SIZE
    S_SCRATCH,  \* the scratch pairs: owner -> index 0..1 -> release::Arena
    handles,    \* the ScratchArena values alive, oldest first
    slast,      \* the last scratch operation and what it returned
    sops,       \* number of scratch operations performed
    nested,     \* every drop so far was of the newest handle of its thread
    limit,      \* number of operations the run goes on for
    vec,        \* the BVec under test: ptr (relative to the arena's base), len, cap
    elems,      \* the elements the BVec's user has logically written, in order
    vlast,      \* the last BVec operation: its arguments, the state before it, what it returned
    vops,       \* number of BVec operations performed
    input,      \* the arguments of the last call of a function of the editor crate
    output,     \* what that call returned
    ncalls      \* number of such calls

arenaVars == <<arena, live, observed, vcommits, last, nops>>
scratchVars == <<mode, INIT_SIZE, S_SCRATCH, handles, slast, sops, nested, limit>>
vecVars == <<vec, elems, vlast, vops>>
textVars == <<input, output, ncalls>>
vars == <<debug, panic, arenaVars, scratchVars, vecVars, textVars>>

\* ------------------------------------------------------------------ bounds

MaxOps == 3
MaxScratchOps == 4
MaxChainOps == 8
MaxVecOps == 3
MaxReplaceOps == 1

\* ------------------------------------------------------------------ constants

ALLOC_CHUNK_SIZE == 65536
DEBUG_FILL_PAD == 128
ALLOC_FILL == 205
RESET_FILL == 221
ZERO_PAGE == 0
MEBI == 1048576

\* ------------------------------------------------------------------ memory

Max(S) == CHOOSE x \in S : \A y \in S : y <= x

\* F of the value of x: a result that is used several times is worked out once.
With(x, F(_)) == CHOOSE y \in {F(r) : r \in {x}} : TRUE

EmptyMem == [p \in {} |-> 0]

\* The byte stored at offset i of a piecewise-constant memory.
ByteAt(mem, i) == mem[Max({p \in DOMAIN mem : p <= i})]

\* The offsets of [0, size) among cand and 0, each with the offset before it.
Probe(cand, size) ==
    LET c == {p \in cand \cup {0} : p >= 0 /\ p < size}
    IN  c \cup {p - 1 : p \in c \ {0}}

\* The canonical piecewise map of the bytes f over [0, size), whose value changes
\* only at offsets of cand; f gives the bytes at Probe(cand, size).
MemBuild(cand, size, f) ==
    With(f, LAMBDA g :
        LET starts == {p \in cand \cup {0} :
                          /\ p >= 0
                          /\ p < size
                          /\ (p = 0 \/ g[p - 1] # g[p])}
        IN  [p \in starts |-> g[p]])

\* slice::fill over [a, b).
MemFill(mem, size, a, b, v) ==
    IF a >= b THEN mem
    ELSE LET cand == DOMAIN mem \cup {a, b}
         IN  MemBuild(cand, size,
                      [i \in Probe(cand, size) |->
                          IF a <= i /\ i < b THEN v ELSE ByteAt(mem, i)])

\* Freshly committed pages [size, newsize) read as zero.
MemCommit(mem, size, newsize) ==
    LET cand == DOMAIN mem \cup {size}
    IN  MemBuild(cand, newsize,
                 [i \in Probe(cand, newsize) |->
                     IF i >= size THEN ZERO_PAGE ELSE ByteAt(mem, i)])

\* ptr::copy_nonoverlapping(src, dst, len).
MemCopy(mem, size, src, dst, len) ==
    IF len = 0 THEN mem
    ELSE LET cand == DOMAIN mem \cup {dst, dst + len}
                         \cup {p - src + dst : p \in {q \in DOMAIN mem : src <= q /\ q < src + len}}
         IN  MemBuild(cand, size,
                      [i \in Probe(cand, size) |->
                          IF dst <= i /\ i < dst + len
                          THEN ByteAt(mem, i - dst + src)
                          ELSE ByteAt(mem, i)])

\* Every byte of [a, b) equals v.
RangeAll(mem, a, b, v) ==
    a < b => /\ ByteAt(mem, a) = v
             /\ \A p \in DOMAIN mem : (a < p /\ p < b) => mem[p] = v

\* The bytes of [a, a + len) equal the bytes of [b, b + len) of another memory.
RangeEq(m1, a, m2, b, len) ==
    \A d \in {0} \cup {p - a : p \in {q \in DOMAIN m1 : a <= q /\ q < a + len}}
              \cup {p - b : p \in {q \in DOMAIN m2 : b <= q /\ q < b + len}} :
        d < len => ByteAt(m1, a + d) = ByteAt(m2, b + d)

\* ------------------------------------------------------------------ usize bit operations

RECURSIVE AndNot(_, _)
\* x & !m on non-negative integers.
AndNot(x, m) ==
    IF x = 0 THEN 0
    ELSE (IF x % 2 = 1 /\ m % 2 = 0 THEN 1 ELSE 0) + 2 * AndNot(x \div 2, m \div 2)

\* ------------------------------------------------------------------ release::Arena

ArenaEmpty ==
    [empty |-> TRUE, capacity |-> 0, commit |-> 0, offset |-> 0,
     borrows |-> 0, mem |-> EmptyMem]

NewCapacity(capacity) ==
    AndNot((IF capacity > 1 THEN capacity ELSE 1) + ALLOC_CHUNK_SIZE - 1, ALLOC_CHUNK_SIZE - 1)

ArenaNewEager(capacity) ==
    [empty |-> FALSE, capacity |-> NewCapacity(capacity), commit |-> ALLOC_CHUNK_SIZE,
     offset |-> 0, borrows |-> 0, mem |-> [p \in {0} |-> ZERO_PAGE]]

ArenaNew(capacity) ==
    [empty |-> FALSE, capacity |-> NewCapacity(capacity), commit |-> 0, offset |-> 0,
     borrows |-> 0, mem |-> EmptyMem]

\* The fill of the range about to be handed out, in debug builds: from the old
\* offset to 128 bytes past the end, capped at the commit the arena records.
DebugAllocFill(a, dbg, end) ==
    IF dbg
    THEN MemFill(a.mem, a.commit, a.offset,
                 (IF end + DEBUG_FILL_PAD < a.commit THEN end + DEBUG_FILL_PAD ELSE a.commit),
                 ALLOC_FILL)
    ELSE a.mem

AllocBegRoundDown(offset, alignment) == AndNot(offset, alignment - 1)
AllocBeg(offset, alignment) == AndNot(offset + alignment - 1, alignment - 1)

AllocEnd(beg, bytes) == beg + bytes

CommitNew(end) == AndNot(end + ALLOC_CHUNK_SIZE - 1, ALLOC_CHUNK_SIZE - 1)

\* The arena as the panic of alloc_raw_bump leaves it: the panic comes before
\* commit and offset are replaced.
CommitBeforeCheck(a, commit_new) == [a EXCEPT !.commit = commit_new]
BumpPanicArena(a, commit_new) == a

CapacityPlusChunk(commit_new, capacity) == commit_new > capacity + ALLOC_CHUNK_SIZE
ExceedsCapacity(commit_new, capacity) == commit_new > capacity

\* alloc_raw_bump: os_ok is the outcome of sys::virtual_commit, should it be called.
alloc_raw_bump(a, dbg, beg, end, os_ok) ==
    LET commit_old == a.commit
        commit_new == CommitNew(end)
    IN  IF ExceedsCapacity(commit_new, a.capacity)
        THEN [a |-> BumpPanicArena(a, commit_new), ptr |-> 0, len |-> 0, panic |-> "out of memory",
              vc |-> <<>>]
        ELSE IF ~os_ok
        THEN [a |-> BumpPanicArena(a, commit_new), ptr |-> 0, len |-> 0, panic |-> "out of memory",
              vc |-> <<commit_new - commit_old>>]
        ELSE [a |-> [a EXCEPT !.mem = MemCommit(DebugAllocFill(a, dbg, end), commit_old, commit_new),
                              !.commit = commit_new,
                              !.offset = end],
              ptr |-> beg, len |-> end - beg, panic |-> "", vc |-> <<commit_new - commit_old>>]

NeedsBumpAtCommit(end, commit) == end >= commit
NeedsBump(end, commit) == end > commit

alloc_raw(a, dbg, bytes, alignment, os_ok) ==
    LET beg == AllocBeg(a.offset, alignment)
        end == AllocEnd(beg, bytes)
    IN  IF NeedsBump(end, a.commit)
        THEN alloc_raw_bump(a, dbg, beg, end, os_ok)
        ELSE [a |-> [a EXCEPT !.mem = DebugAllocFill(a, dbg, end), !.offset = end],
              ptr |-> beg, len |-> bytes, panic |-> "", vc |-> <<>>]

ResetOnlyDown(a, to) == IF to < a.offset THEN to ELSE a.offset
ResetOffset(a, to) == to

reset(a, dbg, to) ==
    [a EXCEPT !.mem = IF dbg /\ a.offset > to
                      THEN MemFill(a.mem, a.commit, to,
                                   (IF a.offset + DEBUG_FILL_PAD < a.commit
                                    THEN a.offset + DEBUG_FILL_PAD ELSE a.commit),
                                   RESET_FILL)
                      ELSE a.mem,
              !.offset = ResetOffset(a, to)]

IsLastNever(a, old_ptr, old_size) == FALSE
IsLastAllocation(a, old_ptr, old_size) == old_ptr + old_size = a.offset

ShrinkInPlaceOffset(offset, old_size, new_size) == offset - old_size + new_size

CopyOneLess(old_size, new_size) == IF old_size > 0 THEN old_size - 1 ELSE 0
CopyLen(old_size, new_size) == old_size

ShrinkNonLastNewLen(old_size, new_size) == new_size
ShrinkNonLastLen(old_size, new_size) == old_size

\* <Arena as Allocator>::realloc
realloc(a, dbg, old_ptr, old_size, new_size, align, os_ok) ==
    IF IsLastAllocation(a, old_ptr, old_size)
    THEN IF new_size > old_size
         THEN With(alloc_raw(a, dbg, new_size - old_size, align, os_ok), LAMBDA r :
                  [r EXCEPT !.ptr = IF r.panic = "" THEN old_ptr ELSE 0,
                            !.len = IF r.panic = "" THEN new_size ELSE 0])
         ELSE [a |-> [a EXCEPT !.offset = ShrinkInPlaceOffset(a.offset, old_size, new_size)],
               ptr |-> old_ptr, len |-> new_size, panic |-> "", vc |-> <<>>]
    ELSE IF new_size > old_size
    THEN With(alloc_raw(a, dbg, new_size, align, os_ok), LAMBDA r :
             IF r.panic # "" THEN r
             ELSE [r EXCEPT !.a.mem = MemCopy(r.a.mem, r.a.commit, old_ptr, r.ptr,
                                              CopyLen(old_size, new_size))])
    ELSE IF dbg
    THEN [a |-> a, ptr |-> 0, len |-> 0, panic |-> "only the last allocation can be shrunk",
          vc |-> <<>>]
    ELSE [a |-> a, ptr |-> old_ptr, len |-> ShrinkNonLastLen(old_size, new_size), panic |-> "",
          vc |-> <<>>]

\* NonNull::<T>::dangling() is the address align_of::<T>(); the base of an empty
\* arena is NonNull::<u8>::dangling(), the base of a reserved one a page address
\* far above any alignment.
Dangling(a, align) == IF a.empty THEN align - 1 ELSE 0 - 1

\* ------------------------------------------------------------------ scratch state while the arena is exercised

\* The key 0 of S_SCRATCH is single_threaded::S_SCRATCH, the `static mut` pair;
\* the keys 1..NThreads are the thread-local pairs of multi_threaded::S_SCRATCH.
NThreads == 2
Threads == 1..NThreads
Owners == 0..NThreads

NoScratchOp ==
    [op |-> "", thread |-> 0, conflict |-> <<"none">>, target |-> <<"none">>, id |-> 0,
     bytes |-> 0, os_ok |-> TRUE, newer |-> FALSE, pre |-> ArenaEmpty,
     created_at |-> 0, exterior |-> <<"none">>, ext_end |-> 0]

NoVecOp ==
    [op |-> "", value |-> 0, additional |-> 0, src |-> <<>>, start |-> 0, end |-> 0,
     pre |-> [ptr |-> 0, len |-> 0, cap |-> 0, since |-> FALSE], pre_a |-> ArenaEmpty,
     old |-> <<>>, ret |-> 0]

\* No function of the editor crate has been called.
TextIdle ==
    /\ input = <<>>
    /\ output = <<>>
    /\ ncalls = 0

\* No BVec is in use.
VecIdle ==
    /\ vec = [ptr |-> 0, len |-> 0, cap |-> 0, since |-> FALSE]
    /\ elems = <<>>
    /\ vlast = NoVecOp
    /\ vops = 0

ScratchIdle ==
    /\ mode = "single"
    /\ INIT_SIZE = 128 * MEBI
    /\ S_SCRATCH = [o \in Owners |-> [i \in {0, 1} |-> ArenaEmpty]]
    /\ handles = <<>>
    /\ slast = NoScratchOp
    /\ sops = 0
    /\ nested = TRUE

\* ------------------------------------------------------------------ the arena under its callers

Capacities == {1, 65537}
Sizes == {0, 3, 65536}
Aligns == {1, 4}
NewSizes == {2, 3, 70000}
FirstSizes == {2}
\* The bytes the owner of the i-th range stores in it (ASCII 'A', 'B', ...).
DataOf(i) == 64 + i

NoOp ==
    [op |-> "", bytes |-> 0, align |-> 1, old_ptr |-> 0, old_size |-> 0, to |-> 0,
     os_ok |-> TRUE, after_reset |-> 0 - 1, pre |-> ArenaEmpty, rptr |-> 0, rlen |-> 0,
     vc |-> <<>>]

Range(beg, end, align) == [beg |-> beg, end |-> end, align |-> align, valid |-> TRUE, data |-> 0]

InitArena ==
    /\ TextIdle
    /\ debug \in BOOLEAN
    /\ panic = ""
    /\ arena \in {ArenaEmpty} \cup {ArenaNew(c) : c \in Capacities}
    /\ live = <<>>
    /\ observed = {0}
    /\ vcommits = <<>>
    /\ last = NoOp
    /\ nops = 0
    /\ ScratchIdle
    /\ VecIdle
    /\ limit = MaxOps

\* The caller stores its data in a range before it asks the arena for anything else.
PendingWrite ==
    /\ Len(live) > 0
    /\ live[Len(live)].valid
    /\ live[Len(live)].data = 0
    /\ live[Len(live)].end > live[Len(live)].beg

Running == panic = "" /\ nops < MaxOps /\ ~PendingWrite

\* What every operation on the arena leaves behind it.
Done(r, op) ==
    /\ arena' = r.a
    /\ panic' = r.panic
    /\ observed' = observed \cup {r.a.offset}
    /\ vcommits' = vcommits \o r.vc
    /\ last' = [op EXCEPT !.pre = arena, !.rptr = r.ptr, !.rlen = r.len, !.vc = r.vc,
                          !.after_reset = IF last.op = "reset" THEN last.to ELSE 0 - 1]
    /\ nops' = nops + 1
    /\ UNCHANGED <<debug, scratchVars, vecVars, textVars>>

\* Arena::alloc_uninit / alloc_uninit_array / alloc_uninit_slice, all of which are alloc_raw.
Alloc(bytes, align, os_ok) ==
    /\ Running
    /\ LET r == alloc_raw(arena, debug, bytes, align, os_ok)
       IN  /\ Done(r, [NoOp EXCEPT !.op = "alloc", !.bytes = bytes, !.align = align,
                                   !.os_ok = os_ok])
           /\ live' = IF r.panic = "" THEN Append(live, Range(r.ptr, r.ptr + r.len, align))
                      ELSE live

\* Arena::reset(to) with an offset the caller has observed; the ranges above it are gone.
Reset(to) ==
    /\ Running
    /\ LET r == [a |-> reset(arena, debug, to), ptr |-> 0, len |-> 0, panic |-> "", vc |-> <<>>]
       IN  /\ Done(r, [NoOp EXCEPT !.op = "reset", !.to = to])
           /\ live' = SelectSeq(live, LAMBDA g : g.end <= to)

\* Allocator::realloc of a range the caller owns.
Realloc(i, new_size, os_ok) ==
    /\ Running
    /\ live[i].valid
    /\ LET g == live[i]
           r == realloc(arena, debug, g.beg, g.end - g.beg, new_size, g.align, os_ok)
           op == [NoOp EXCEPT !.op = "realloc", !.bytes = new_size, !.align = g.align,
                              !.old_ptr = g.beg, !.old_size = g.end - g.beg, !.os_ok = os_ok]
       IN  /\ Done(r, op)
           /\ live' = IF r.panic # "" THEN live
                      ELSE IF r.ptr = g.beg
                      THEN [live EXCEPT ![i].end = r.ptr + r.len]
                      ELSE Append([live EXCEPT ![i].valid = FALSE],
                                  [Range(r.ptr, r.ptr + r.len, g.align) EXCEPT !.data = g.data])

\* Allocator::realloc of an empty container: a dangling pointer and old_size 0.
ReallocEmpty(new_size, align, os_ok) ==
    /\ Running
    /\ LET old_ptr == Dangling(arena, align)
           r == realloc(arena, debug, old_ptr, 0, new_size, align, os_ok)
           op == [NoOp EXCEPT !.op = "realloc", !.bytes = new_size, !.align = align,
                              !.old_ptr = old_ptr, !.old_size = 0, !.os_ok = os_ok]
       IN  /\ Done(r, op)
           /\ live' = IF r.panic = "" /\ r.len > 0
                      THEN Append(live, Range(r.ptr, r.ptr + r.len, align))
                      ELSE live

\* Allocator::dealloc: nothing happens to the arena; the caller gives the range up.
Dealloc(i) ==
    /\ Running
    /\ live[i].valid
    /\ Done([a |-> arena, ptr |-> 0, len |-> 0, panic |-> "", vc |-> <<>>],
            [NoOp EXCEPT !.op = "dealloc", !.old_ptr = live[i].beg,
                         !.old_size = live[i].end - live[i].beg])
    /\ live' = [live EXCEPT ![i].valid = FALSE]

\* The caller fills the range it has just been handed with its data.
Write(i) ==
    /\ panic = ""
    /\ PendingWrite
    /\ i = Len(live)
    /\ arena' = [arena EXCEPT !.mem = MemFill(arena.mem, arena.commit, live[i].beg, live[i].end, DataOf(i))]
    /\ live' = [live EXCEPT ![i].data = DataOf(i)]
    /\ last' = [last EXCEPT !.op = "write"]
    /\ UNCHANGED <<debug, panic, observed, vcommits, nops, scratchVars, vecVars, textVars>>

NextArena ==
    \/ \E bytes \in Sizes, align \in Aligns, os_ok \in BOOLEAN : Alloc(bytes, align, os_ok)
    \/ \E to \in observed : Reset(to)
    \/ \E i \in DOMAIN live, new_size \in NewSizes, os_ok \in BOOLEAN : Realloc(i, new_size, os_ok)
    \/ \E new_size \in FirstSizes, align \in Aligns, os_ok \in BOOLEAN : ReallocEmpty(new_size, align, os_ok)
    \/ \E i \in DOMAIN live : Dealloc(i)
    \/ \E i \in DOMAIN live : Write(i)

SpecArena == InitArena /\ [][NextArena]_vars

\* ------------------------------------------------------------------ claims about the arena

AlignUp(x, a) == ((x + a - 1) \div a) * a

Applied(op) == last.op = op

Returned(op) == last.op = op /\ panic = ""

WasLast == last.old_ptr + last.old_size = last.pre.offset

Disjoint(a, b, c, d) == a >= b \/ c >= d \/ b <= c \/ d <= a

\* C1: after any sequence of allocations, reallocs, deallocs and resets to observed
\* offsets, 0 <= offset <= committed <= capacity.
C1_OffsetCommitCapacity ==
    /\ 0 <= arena.offset
    /\ arena.offset <= arena.commit
    /\ arena.commit <= arena.capacity

C1_Witness ==
    /\ Returned("realloc")
    /\ arena.offset < last.pre.offset
    /\ arena.offset > 0
    /\ arena.commit = ALLOC_CHUNK_SIZE
    /\ arena.capacity > arena.commit

\* C2: a range returned by an allocation starts at or after the offset before the
\* call, at a multiple of the alignment, ends inside the committed part, and is
\* disjoint from every other range returned since the last reset; a realloc in
\* place keeps its start.
C2_RangesIncreaseAndDisjoint ==
    /\ (Returned("alloc") \/ (Returned("realloc") /\ last.rptr # last.old_ptr))
          => /\ last.rptr >= last.pre.offset
             /\ last.rptr % last.align = 0
             /\ last.rptr + last.rlen <= arena.commit
             /\ last.rptr + last.rlen <= arena.offset
    /\ \A i \in DOMAIN live : \A j \in DOMAIN live :
          i # j => Disjoint(live[i].beg, live[i].end, live[j].beg, live[j].end)
    /\ \A i \in DOMAIN live : 0 <= live[i].beg /\ live[i].end <= arena.commit

C2_Witness ==
    /\ Returned("alloc")
    /\ last.rptr > last.pre.offset
    /\ last.rlen > 0
    /\ Len(live) >= 2
    /\ live[1].end > live[1].beg

\* C3: an allocation whose end = align_up(offset, align) + size is within the
\* committed part returns [beg, end), sets offset to end, leaves committed and
\* capacity alone and makes no commit call.
C3_FastPath ==
    (Applied("alloc") /\ AlignUp(last.pre.offset, last.align) + last.bytes <= last.pre.commit)
        => /\ panic = ""
           /\ last.rptr = AlignUp(last.pre.offset, last.align)
           /\ last.rlen = last.bytes
           /\ arena.offset = last.rptr + last.bytes
           /\ arena.commit = last.pre.commit
           /\ arena.capacity = last.pre.capacity
           /\ last.vc = <<>>

C3_Witness ==
    /\ Returned("alloc")
    /\ last.pre.commit > 0
    /\ last.rlen > 0
    /\ last.rptr + last.rlen = last.pre.commit

\* C4: an allocation whose end is past the committed part commits up to
\* ceil(end, chunk size) and returns [beg, end) with offset = end; when that would
\* exceed the capacity or the commit call fails it panics "out of memory" with
\* offset and committed as they were before the call.
C4_BumpOrOutOfMemory ==
    LET beg == AlignUp(last.pre.offset, last.align)
        end == beg + last.bytes
        ceil == AlignUp(end, ALLOC_CHUNK_SIZE)
    IN  (Applied("alloc") /\ end > last.pre.commit)
            => IF ceil > last.pre.capacity \/ ~last.os_ok
               THEN /\ panic = "out of memory"
                    /\ arena.offset = last.pre.offset
                    /\ arena.commit = last.pre.commit
               ELSE /\ panic = ""
                    /\ arena.commit = ceil
                    /\ last.rptr = beg
                    /\ last.rlen = last.bytes
                    /\ arena.offset = end

C4_Witness ==
    /\ Applied("alloc")
    /\ panic = "out of memory"
    /\ last.os_ok
    /\ last.pre.commit > 0
    /\ last.pre.offset > 0

\* C5 as stated: the first allocation on an arena made by Arena::new triggers
\* exactly one commit, of at least the chunk size.
C5_FirstAllocationCommitsOnce ==
    (nops = 1 /\ Returned("alloc") /\ ~last.pre.empty)
        => /\ last.pre.commit = 0
           /\ last.pre.offset = 0
           /\ Len(vcommits) = 1
           /\ vcommits[1] >= ALLOC_CHUNK_SIZE

\* C5 as amended: Arena::new(c) starts with committed = offset = 0; the first
\* allocation, when it returns, has made exactly one commit call of at least the
\* chunk size if its size is not zero, and no commit call if its size is zero.
C5_FirstNonEmptyAllocationCommitsOnce ==
    (nops = 1 /\ last.op \in {"alloc", "realloc"} /\ ~last.pre.empty)
        => /\ last.pre.commit = 0
           /\ last.pre.offset = 0
           /\ last.pre.capacity >= ALLOC_CHUNK_SIZE
           /\ panic = "" =>
                 IF last.bytes > 0
                 THEN /\ Len(vcommits) = 1
                      /\ vcommits[1] >= ALLOC_CHUNK_SIZE
                      /\ arena.commit = vcommits[1]
                 ELSE /\ vcommits = <<>>
                      /\ arena.commit = 0

C5_Witness ==
    /\ nops = 1
    /\ Returned("alloc")
    /\ ~last.pre.empty
    /\ last.bytes > 0
    /\ Len(vcommits) = 1

\* C6: reset(to) sets offset = to and leaves committed and capacity alone; the
\* allocation that follows it starts at align_up(to, align); in debug builds every
\* byte of [to, old offset) holds the poison pattern once reset has returned.
C6_ResetReuses ==
    /\ Applied("reset")
          => /\ arena.offset = last.to
             /\ arena.commit = last.pre.commit
             /\ arena.capacity = last.pre.capacity
             /\ debug => RangeAll(arena.mem, last.to, last.pre.offset, RESET_FILL)
    /\ (Returned("alloc") /\ last.after_reset >= 0)
          => /\ last.pre.offset = last.after_reset
             /\ last.rptr = AlignUp(last.after_reset, last.align)

C6_Witness ==
    /\ Returned("alloc")
    /\ last.after_reset >= 0
    /\ debug
    /\ last.rlen > 0
    /\ last.rptr < last.pre.commit
    /\ ByteAt(last.pre.mem, last.rptr) = RESET_FILL

\* C7 as stated: a realloc of the most recent allocation returns
\* [old_ptr, old_ptr + new_size), copies nothing, and leaves the offset at
\* (old_ptr - base) + new_size, for every old_size, new_size and alignment.
C7_InPlaceOffsetIsNewEnd ==
    (Returned("realloc") /\ WasLast)
        => /\ last.rptr = last.old_ptr
           /\ last.rlen = last.bytes
           /\ RangeEq(arena.mem, last.old_ptr, last.pre.mem, last.old_ptr,
                      IF last.bytes < last.old_size THEN last.bytes ELSE last.old_size)
           /\ arena.offset = last.old_ptr + last.bytes

\* The bytes of [a, b) of the arena after a growing realloc that were not copied:
\* zero where freshly committed, else the allocation fill (debug) or what they were.
NotCopied(a, b) ==
    \A i \in {a, last.pre.commit}
             \cup {p \in DOMAIN arena.mem \cup DOMAIN last.pre.mem : a < p /\ p < b} :
        (a <= i /\ i < b)
            => ByteAt(arena.mem, i) =
                  IF i >= last.pre.commit THEN ZERO_PAGE
                  ELSE IF debug THEN ALLOC_FILL
                  ELSE ByteAt(last.pre.mem, i)

\* C8: a growing realloc of an allocation that is not the most recent one returns
\* a fresh range of new_size bytes at align_up(offset, align), disjoint from the
\* old one, whose first old_size bytes are the old bytes and no more, and leaves
\* the old range's bytes as they were.
C8_GrowNonLastCopies ==
    (Returned("realloc") /\ ~WasLast /\ last.bytes > last.old_size)
        => /\ last.rptr = AlignUp(last.pre.offset, last.align)
           /\ last.rlen = last.bytes
           /\ arena.offset = last.rptr + last.bytes
           /\ Disjoint(last.rptr, last.rptr + last.rlen,
                       last.old_ptr, last.old_ptr + last.old_size)
           /\ RangeEq(arena.mem, last.rptr, last.pre.mem, last.old_ptr, last.old_size)
           /\ NotCopied(last.rptr + last.old_size, last.rptr + last.rlen)
           /\ RangeEq(arena.mem, last.old_ptr, last.pre.mem, last.old_ptr, last.old_size)

C8_Witness ==
    /\ Returned("realloc")
    /\ ~WasLast
    /\ last.bytes > last.old_size
    /\ last.old_size > 0
    /\ ByteAt(arena.mem, last.rptr) = DataOf(1)
    /\ ByteAt(arena.mem, last.rptr + last.old_size) # DataOf(1)

\* C9: a realloc to new_size <= old_size of an allocation that is not the most
\* recent one fails a debug assertion; in every build offset and committed stay
\* as they were, and a release build returns the old range with its old size.
C9_ShrinkNonLast ==
    (Applied("realloc") /\ ~WasLast /\ last.bytes <= last.old_size)
        => /\ arena.offset = last.pre.offset
           /\ arena.commit = last.pre.commit
           /\ IF debug
              THEN panic = "only the last allocation can be shrunk"
              ELSE /\ panic = ""
                   /\ last.rptr = last.old_ptr
                   /\ last.rlen = last.old_size

C9_Witness ==
    /\ Returned("realloc")
    /\ ~WasLast
    /\ last.bytes < last.old_size
    /\ ~debug
    /\ last.rlen = last.old_size

\* ------------------------------------------------------------------ scratch arenas

\* The threads that run: the single-threaded build has one.
Callers == IF mode = "single" THEN {1} ELSE Threads

\* The pair a thread's scratch_arena call works on.
SharedPair(t) == 0
PairOf(t) == IF mode = "single" THEN 0 ELSE t

InitCaps == {0, 65537}
ScratchSizes == {3}

NoHandle == 0
Unrelated == 0 - 1

\* debug::Arena::delegated: the borrow counter after the increment is the handle's
\* borrow id. Release builds have no counter.
NotCounted(a, dbg) == a
delegated(a, dbg) == IF dbg THEN [a EXCEPT !.borrows = a.borrows + 1] ELSE a

\* helpers::opt_ptr_eq(conflict, Some(&S_SCRATCH[0])) as usize, on arena
\* identities <<owner, index>>; None and an arena outside the pair equal neither.
FirstIndex(conflict, owner) == 0
ScratchIndex(conflict, owner) == IF conflict = <<owner, 0>> THEN 1 ELSE 0

\* debug::Arena::delegate_target_unchecked of the arena passed as conflict.
ConflictUnmapped(c) == IF c = NoHandle THEN <<"none">> ELSE <<"wrapper">>
ConflictTarget(c) ==
    IF c = NoHandle THEN <<"none">>
    ELSE IF c = Unrelated THEN <<"unrelated">>
    ELSE LET h == CHOOSE h \in {handles[k] : k \in DOMAIN handles} : h.id = c
         IN  <<h.owner, h.index>>

\* multi_threaded::scratch_arena::init: both arenas of the pair are replaced.
LazyInitNever(pair, index) == pair
LazyInit(pair, index) ==
    IF mode = "multi" /\ pair[index].empty
    THEN [i \in {0, 1} |-> ArenaNew(INIT_SIZE)]
    ELSE pair

\* ScratchArena::new: the offset the handle will reset its arena to.
SavedCommit(a) == a.commit
SavedOffset(a) == a.offset

NoArenaOp ==
    /\ arena = ArenaEmpty
    /\ live = <<>>
    /\ observed = {0}
    /\ vcommits = <<>>
    /\ last = NoOp
    /\ nops = 0

InitScratch ==
    /\ TextIdle
    /\ debug \in BOOLEAN
    /\ panic = ""
    /\ mode \in {"single", "multi"}
    /\ INIT_SIZE = 128 * MEBI
    /\ S_SCRATCH = [o \in Owners |-> [i \in {0, 1} |-> ArenaEmpty]]
    /\ handles = <<>>
    /\ slast = NoScratchOp
    /\ sops = 0
    /\ nested = TRUE
    /\ limit = MaxScratchOps
    /\ NoArenaOp
    /\ VecIdle

ScratchRunning == panic = "" /\ sops < limit

\* The handles of a thread that are alive, and the newest of them: the scratch
\* arena of the function that thread is running.
HandlesOf(t) == {k \in DOMAIN handles : handles[k].thread = t}
Newest(t) == Max(HandlesOf(t))

\* A handle created after h over the same arena is alive.
NewerAlive(h) ==
    \E k \in DOMAIN handles :
        /\ handles[k].id > h.id
        /\ handles[k].owner = h.owner
        /\ handles[k].index = h.index

\* scratch::init(capacity): the single-threaded one replaces both arenas, the
\* multi-threaded one only stores the default size.
InitStore(t, capacity) ==
    /\ ScratchRunning
    /\ t \in Callers
    /\ IF mode = "single"
       THEN /\ S_SCRATCH' = [S_SCRATCH EXCEPT ![0] = [i \in {0, 1} |-> ArenaNew(capacity)]]
            /\ UNCHANGED INIT_SIZE
       ELSE /\ INIT_SIZE' = IF capacity # 0 THEN capacity ELSE INIT_SIZE
            /\ UNCHANGED S_SCRATCH
    /\ slast' = [NoScratchOp EXCEPT !.op = "init", !.thread = t, !.bytes = capacity]
    /\ sops' = sops + 1
    /\ UNCHANGED <<debug, panic, mode, handles, nested, limit, arenaVars, vecVars, textVars>>

\* init(capacity) called before the first scratch_arena, as it is documented.
ScratchInit(t, capacity) ==
    /\ handles = <<>>
    /\ InitStore(t, capacity)

\* scratch_arena(conflict) on thread t; c names the arena passed as conflict: none,
\* a ScratchArena of this thread that is alive, or an arena outside the pairs.
ScratchArenaCall(t, c) ==
    /\ ScratchRunning
    /\ t \in Callers
    /\ c \in {NoHandle, Unrelated} \cup {handles[k].id : k \in HandlesOf(t)}
    /\ LET owner == PairOf(t)
           conflict == ConflictTarget(c)
           index == ScratchIndex(conflict, owner)
           pair == LazyInit(S_SCRATCH[owner], index)
           a == delegated(pair[index], debug)
           h == [id |-> sops + 1, thread |-> t, owner |-> owner, index |-> index,
                 offset |-> SavedOffset(pair[index]), borrow |-> a.borrows, conflict |-> c,
                 exterior |-> conflict, created_at |-> S_SCRATCH[owner][index].offset,
                 superseded |-> FALSE, ext_end |-> 0]
       IN  /\ S_SCRATCH' = [S_SCRATCH EXCEPT ![owner] = [pair EXCEPT ![index] = a]]
           /\ handles' = Append([k \in DOMAIN handles |->
                                    IF handles[k].owner = owner /\ handles[k].index = index
                                    THEN [handles[k] EXCEPT !.superseded = TRUE]
                                    ELSE handles[k]], h)
           /\ slast' = [NoScratchOp EXCEPT !.op = "scratch_arena", !.thread = t,
                                           !.conflict = conflict, !.target = <<owner, index>>,
                                           !.id = h.id, !.pre = S_SCRATCH[owner][index]]
    /\ sops' = sops + 1
    /\ UNCHANGED <<debug, panic, mode, INIT_SIZE, nested, limit, arenaVars, vecVars, textVars>>

\* debug::Arena::delegate_target: the handle must be the newest borrow of its arena.
StaleNever(h) == FALSE
Stale(h) == debug /\ h.borrow # S_SCRATCH[h.owner][h.index].borrows

\* What a call through the handle h leaves behind: r is the outcome of the arena
\* operation, which runs only if the Deref did not panic. An allocation through
\* the arena the running function was given as `conflict` is one of its exterior
\* allocations.
Through(h, r, op) ==
    /\ IF Stale(h)
       THEN /\ panic' = "Arena already borrowed by a newer ScratchArena"
            /\ UNCHANGED <<S_SCRATCH, handles>>
       ELSE /\ panic' = r.panic
            /\ S_SCRATCH' = [S_SCRATCH EXCEPT ![h.owner][h.index] = r.a]
            /\ handles' = [k \in DOMAIN handles |->
                              IF /\ k = Newest(h.thread)
                                 /\ handles[k].conflict = h.id
                                 /\ r.panic = ""
                                 /\ r.ptr + r.len > handles[k].ext_end
                              THEN [handles[k] EXCEPT !.ext_end = r.ptr + r.len]
                              ELSE handles[k]]
    /\ slast' = [op EXCEPT !.thread = h.thread, !.target = <<h.owner, h.index>>, !.id = h.id,
                           !.newer = NewerAlive(h), !.pre = S_SCRATCH[h.owner][h.index]]
    /\ sops' = sops + 1
    /\ UNCHANGED <<debug, mode, INIT_SIZE, nested, limit, arenaVars, vecVars, textVars>>

\* An allocation through a ScratchArena (Deref, then Arena::alloc_uninit*).
AllocThrough(k, bytes, align, os_ok) ==
    /\ ScratchRunning
    /\ LET h == handles[k]
       IN  Through(h, alloc_raw(S_SCRATCH[h.owner][h.index], debug, bytes, align, os_ok),
                   [NoScratchOp EXCEPT !.op = "alloc", !.bytes = bytes, !.os_ok = os_ok])

\* The first growth of an empty container through a ScratchArena
\* (<debug::Arena as Allocator>::realloc of a dangling pointer).
ReallocThrough(k, new_size, align, os_ok) ==
    /\ ScratchRunning
    /\ LET h == handles[k]
           a == S_SCRATCH[h.owner][h.index]
       IN  Through(h, realloc(a, debug, Dangling(a, align), 0, new_size, align, os_ok),
                   [NoScratchOp EXCEPT !.op = "realloc", !.bytes = new_size, !.os_ok = os_ok])

\* Arena::reset through a ScratchArena, to the offset the handle began with.
ResetThrough(k) ==
    /\ ScratchRunning
    /\ LET h == handles[k]
           a == reset(S_SCRATCH[h.owner][h.index], debug, h.offset)
       IN  Through(h, [a |-> a, ptr |-> 0, len |-> 0, panic |-> "", vc |-> <<>>],
                   [NoScratchOp EXCEPT !.op = "reset"])

\* Drop for debug::Arena: the borrow is given back.
KeepBorrows(a, dbg) == a
ReleaseBorrow(a, dbg) == IF dbg THEN [a EXCEPT !.borrows = a.borrows - 1] ELSE a

\* Drop for ScratchArena: reset through the handle (a Deref in debug builds), then
\* Drop for debug::Arena, which gives the borrow back.
DropHandle(k) ==
    /\ ScratchRunning
    /\ LET h == handles[k]
           a == reset(S_SCRATCH[h.owner][h.index], debug, h.offset)
       IN  /\ IF Stale(h)
              THEN /\ panic' = "Arena already borrowed by a newer ScratchArena"
                   /\ UNCHANGED <<S_SCRATCH, handles>>
              ELSE /\ panic' = panic
                   /\ S_SCRATCH' = [S_SCRATCH EXCEPT ![h.owner][h.index] = ReleaseBorrow(a, debug)]
                   /\ handles' = SelectSeq(handles, LAMBDA g : g.id # h.id)
           /\ slast' = [NoScratchOp EXCEPT !.op = "drop", !.thread = h.thread,
                                           !.target = <<h.owner, h.index>>, !.id = h.id,
                                           !.newer = NewerAlive(h),
                                           !.pre = S_SCRATCH[h.owner][h.index],
                                           !.created_at = h.created_at,
                                           !.exterior = h.exterior, !.ext_end = h.ext_end]
           /\ nested' = (nested /\ k = Newest(h.thread))
    /\ sops' = sops + 1
    /\ UNCHANGED <<debug, mode, INIT_SIZE, limit, arenaVars, vecVars, textVars>>

NextScratch ==
    \/ \E t \in Threads, capacity \in InitCaps : ScratchInit(t, capacity)
    \/ \E t \in Threads, c \in Unrelated..MaxScratchOps : ScratchArenaCall(t, c)
    \/ \E k \in DOMAIN handles, bytes \in ScratchSizes, align \in Aligns, os_ok \in BOOLEAN :
          AllocThrough(k, bytes, align, os_ok)
    \/ \E k \in DOMAIN handles, new_size \in ScratchSizes, os_ok \in BOOLEAN :
          ReallocThrough(k, new_size, 4, os_ok)
    \/ \E k \in DOMAIN handles : ResetThrough(k)
    \/ \E k \in DOMAIN handles : DropHandle(k)

SpecScratch == InitScratch /\ [][NextScratch]_vars

\* ------------------------------------------------------------------ claims about the scratch arenas

HandleSet == {handles[k] : k \in DOMAIN handles}

TargetOf(h) == <<h.owner, h.index>>

\* C10: scratch_arena(conflict) is backed by a member of the caller's pair that is
\* not the arena under `conflict`, the first of the pair when there is no
\* conflict; so a handle requested with the previous one as conflict is backed by
\* the other arena, and a third one in such a chain by the arena of the first.
C10_ScratchAvoidsConflict ==
    /\ slast.op = "scratch_arena"
          => /\ slast.target # slast.conflict
             /\ slast.target \in {<<PairOf(slast.thread), 0>>, <<PairOf(slast.thread), 1>>}
             /\ slast.conflict = <<"none">> => slast.target = <<PairOf(slast.thread), 0>>
    /\ \A h1 \in HandleSet : \A h2 \in HandleSet :
          h2.conflict = h1.id
              => /\ TargetOf(h2) # TargetOf(h1)
                 /\ h2.owner = h1.owner
                 /\ h1.conflict = NoHandle => (h1.index = 0 /\ h2.index = 1)
                 /\ \A h3 \in HandleSet :
                       h3.conflict = h2.id => TargetOf(h3) = TargetOf(h1)

C10_Witness ==
    \E h1 \in HandleSet : \E h2 \in HandleSet : \E h3 \in HandleSet :
        /\ h1.conflict = NoHandle
        /\ h2.conflict = h1.id
        /\ h3.conflict = h2.id
        /\ slast.op = "scratch_arena"
        /\ slast.id = h3.id
        /\ slast.target = TargetOf(h1)

ArenaAt(target) == S_SCRATCH[target[1]][target[2]]

InitChain ==
    /\ TextIdle
    /\ debug \in BOOLEAN
    /\ panic = ""
    /\ mode \in {"single", "multi"}
    /\ INIT_SIZE = 128 * MEBI
    /\ S_SCRATCH = [o \in Owners |-> [i \in {0, 1} |-> ArenaEmpty]]
    /\ handles = <<>>
    /\ slast = NoScratchOp
    /\ sops = 0
    /\ nested = TRUE
    /\ limit = MaxChainOps
    /\ NoArenaOp
    /\ VecIdle

Depth == Len(handles)

Enter == ScratchArenaCall(1, IF Depth = 0 THEN NoHandle ELSE handles[Depth].id)

InteriorAlloc(bytes, align, os_ok) == Depth >= 1 /\ AllocThrough(Depth, bytes, align, os_ok)

ExteriorAlloc(bytes, align, os_ok) == Depth >= 2 /\ AllocThrough(Depth - 1, bytes, align, os_ok)

Return == Depth >= 1 /\ DropHandle(Depth)

NextChain ==
    \/ \E capacity \in InitCaps : ScratchInit(1, capacity)
    \/ Enter
    \/ \E bytes \in ScratchSizes, os_ok \in BOOLEAN : InteriorAlloc(bytes, 4, os_ok)
    \/ \E bytes \in ScratchSizes, os_ok \in BOOLEAN : ExteriorAlloc(bytes, 4, os_ok)
    \/ Return

SpecChain == InitChain /\ [][NextChain]_vars

IsPairArena(target) == target \in {<<PairOf(1), 0>>, <<PairOf(1), 1>>}

\* C12: along a call chain in which every callee asks for its scratch arena with
\* its exterior arena as the conflict, the interior arena is never the exterior
\* one, only the two arenas of the pair are used and they alternate along the
\* chain, the debug borrow assertion never fires, and what a callee allocated in
\* its exterior arena stays below that arena's offset, also after the callee
\* has returned and dropped its scratch arena.
C12_FlipFlopSuffices ==
    /\ panic # "Arena already borrowed by a newer ScratchArena"
    /\ \A d \in DOMAIN handles :
          /\ IsPairArena(TargetOf(handles[d]))
          /\ handles[d].index = (d - 1) % 2
          /\ d > 1 => /\ handles[d].exterior = TargetOf(handles[d - 1])
                      /\ TargetOf(handles[d]) # handles[d].exterior
                      /\ ArenaAt(handles[d].exterior).offset >= handles[d].ext_end
    /\ (slast.op = "drop" /\ slast.exterior # <<"none">>)
          => /\ slast.target # slast.exterior
             /\ ArenaAt(slast.exterior).offset >= slast.ext_end

\* A callee at depth 3 that allocated in its exterior arena has returned; before
\* that its own scratch arena, the one the first function uses, held allocations.
C12_Witness ==
    /\ slast.op = "drop"
    /\ panic = ""
    /\ Depth = 2
    /\ slast.target = TargetOf(handles[1])
    /\ slast.exterior = TargetOf(handles[2])
    /\ slast.ext_end > 0
    /\ slast.pre.offset > slast.created_at
    /\ slast.created_at > 0

BorrowPanic == "Arena already borrowed by a newer ScratchArena"

PairCreated(t) == \A i \in {0, 1} : ~S_SCRATCH[PairOf(t)][i].empty

\* C13 as stated: in both modes the pair is empty at startup and the first
\* scratch_arena call creates it with the default capacity, so that an
\* allocation through the returned handle succeeds without an earlier init.
C13_LazilyCreatedInBothModes ==
    /\ sops = 0 => \A o \in Owners : \A i \in {0, 1} : S_SCRATCH[o][i].empty
    /\ slast.op = "scratch_arena"
          => /\ PairCreated(slast.thread)
             /\ slast.pre.empty
                   => \A i \in {0, 1} :
                         S_SCRATCH[PairOf(slast.thread)][i].capacity = NewCapacity(INIT_SIZE)
    /\ (slast.op = "alloc" /\ slast.os_ok /\ panic # BorrowPanic) => panic = ""

\* C13, amended: the pair is empty at startup in both modes. With thread-local
\* pairs the first scratch_arena call of a thread creates the pair with the
\* default capacity, which a non-zero init(capacity) overrides, and allocations
\* through the handle succeed. The single global pair is created by init(capacity)
\* only: scratch_arena leaves it as it is, and a non-empty allocation through a
\* handle over the still empty arena panics "out of memory".
C13_LazilyCreatedPerThreadOnly ==
    /\ sops = 0 => \A o \in Owners : \A i \in {0, 1} : S_SCRATCH[o][i].empty
    /\ INIT_SIZE \in {128 * MEBI} \cup (InitCaps \ {0})
    /\ (slast.op = "init" /\ mode = "multi" /\ slast.bytes # 0) => INIT_SIZE = slast.bytes
    /\ (slast.op = "init" /\ mode = "single")
          => \A i \in {0, 1} : /\ ~S_SCRATCH[0][i].empty
                               /\ S_SCRATCH[0][i].capacity = NewCapacity(slast.bytes)
    /\ (slast.op = "scratch_arena" /\ mode = "multi")
          => /\ PairCreated(slast.thread)
             /\ slast.pre.empty
                   => \A i \in {0, 1} :
                         /\ S_SCRATCH[PairOf(slast.thread)][i].capacity = NewCapacity(INIT_SIZE)
                         /\ S_SCRATCH[PairOf(slast.thread)][i].offset = 0
    /\ (slast.op = "scratch_arena" /\ mode = "single")
          => /\ ArenaAt(slast.target).empty = slast.pre.empty
             /\ ArenaAt(slast.target).capacity = slast.pre.capacity
    /\ (slast.op = "alloc" /\ slast.os_ok /\ panic # BorrowPanic)
          => /\ mode = "multi" => ~slast.pre.empty
             /\ ~slast.pre.empty => panic = ""
             /\ (slast.pre.empty /\ slast.bytes > 0) => panic = "out of memory"

\* The first operation of a thread was scratch_arena, the second an allocation
\* through the handle: it succeeded in an arena of the default capacity.
C13_Witness ==
    /\ mode = "multi"
    /\ sops = 2
    /\ slast.op = "alloc"
    /\ panic = ""
    /\ slast.pre.offset = 0
    /\ ArenaAt(slast.target).capacity = NewCapacity(128 * MEBI)
    /\ ArenaAt(slast.target).offset > 0

DerefOps == {"alloc", "realloc", "reset"}

\* C14: in a debug build a handle's borrow id equals its arena's borrow counter
\* exactly while no newer handle over the same arena is alive; allocating,
\* reallocating or resetting through a handle while a newer one is alive panics
\* and leaves the arena as it was, and through a handle whose newer borrows have
\* all been dropped it does not panic with the borrow message.
C14_OnlyNewestBorrowDerefs ==
    debug =>
        /\ \A h \in HandleSet : (h.borrow = ArenaAt(TargetOf(h)).borrows) <=> ~NewerAlive(h)
        /\ slast.op \in DerefOps
              => /\ (panic = BorrowPanic) <=> slast.newer
                 /\ slast.newer => ArenaAt(slast.target) = slast.pre

\* An allocation through a handle that had been superseded by a newer borrow of
\* its arena, made after the newer borrow was dropped, returned.
C14_Witness ==
    /\ debug
    /\ slast.op \in DerefOps
    /\ panic = ""
    /\ ~slast.newer
    /\ \E h \in HandleSet : h.id = slast.id /\ h.superseded
    /\ ArenaAt(slast.target) # slast.pre

\* C15: in a debug build, dropping a handle while a newer handle over the same
\* arena is alive panics and leaves the borrow counter as it was; dropping the
\* newest handle of an arena does not panic and lowers the counter by one.
C15_DropChecksNewestBorrow ==
    (debug /\ slast.op = "drop")
        => IF slast.newer
           THEN /\ panic # ""
                /\ ArenaAt(slast.target).borrows = slast.pre.borrows
                /\ \E h \in HandleSet : h.id = slast.id
           ELSE /\ panic = ""
                /\ ArenaAt(slast.target).borrows = slast.pre.borrows - 1
                /\ \A h \in HandleSet : h.id # slast.id

\* The newer of two handles over one arena was dropped: the counter went from 2 to 1.
C15_Witness ==
    /\ debug
    /\ slast.op = "drop"
    /\ panic = ""
    /\ slast.pre.borrows = 2
    /\ ArenaAt(slast.target).borrows = 1
    /\ \E h \in HandleSet : TargetOf(h) = slast.target /\ h.superseded

\* ------------------------------------------------------------------ BVec<u16> on an arena

\* size_of::<u16>() and align_of::<u16>().
ElemSize == 2
ElemAlign == 2

\* usize::MAX, the end of an unbounded range. It is only ever compared with
\* lengths, so the largest integer at hand stands for it.
USIZE_MAX == 2147483647

Min2(x, y) == IF x < y THEN x ELSE y

\* usize::saturating_sub
SatSub(x, y) == IF x > y THEN x - y ELSE 0

\* BVec::empty. `since` is history: another allocation was made on the arena
\* after the buffer was last allocated or grown.
BVecEmpty(a) == [ptr |-> Dangling(a, ElemAlign), len |-> 0, cap |-> 0, since |-> FALSE]

\* What a BVec method leaves behind: the vector, the arena, the panic message if
\* it panicked, and the address it returned if it returns one.
Out(v, a) == [v |-> v, a |-> a, panic |-> "", ret |-> 0]

\* A little-endian u16 at addr.
ElemAt(mem, addr) == ByteAt(mem, addr) + 256 * ByteAt(mem, addr + 1)

\* The bytes of a sequence of u16, little-endian.
Bytes(s) == [k \in 1..(Len(s) * ElemSize) |->
                IF k % 2 = 1 THEN s[(k + 1) \div 2] % 256 ELSE s[k \div 2] \div 256]

\* MaybeUninit::write of each element of s, from addr on; also
\* ptr::copy_nonoverlapping from a slice outside the arena, and memset.
WriteElems(a, addr, s) ==
    IF s = <<>> THEN a
    ELSE LET bytes == Bytes(s)
             cand == DOMAIN a.mem \cup {addr + k : k \in 0..Len(bytes)}
         IN  [a EXCEPT !.mem = MemBuild(cand, a.commit,
                                        [i \in Probe(cand, a.commit) |->
                                            IF addr <= i /\ i < addr + Len(bytes)
                                            THEN bytes[i - addr + 1]
                                            ELSE ByteAt(a.mem, i)])]

\* BVec::as_slice
as_slice(v, a) == [i \in 1..v.len |-> ElemAt(a.mem, v.ptr + (i - 1) * ElemSize)]

\* BVec::set_len
set_len(written, dbg, new_len) ==
    With(written, LAMBDA r :
        IF dbg /\ new_len > r.v.cap
        THEN [r EXCEPT !.panic = "assertion failed: new_len <= self.cap"]
        ELSE [r EXCEPT !.v.len = new_len])

\* BVec::truncate
truncate(v, len) == IF v.len >= len THEN [v EXCEPT !.len = len] ELSE v

\* BVec::clear
clear(v) == [v EXCEPT !.len = 0]

\* new_cap in BVec::grow
GrowCapNoDoubling(cap, len, add) == Max({len + add, 8})
GrowCap(cap, len, add) == Max({cap * 2, len + add, 8})

\* BVec::grow
grow(v, a, dbg, cap, add, os_ok) ==
    IF dbg /\ add = 0
    THEN [v |-> v, a |-> a, panic |-> "growing by zero makes no sense", ret |-> 0]
    ELSE LET new_cap == GrowCap(cap, v.len, add)
         IN  With(realloc(a, dbg, v.ptr, v.cap * ElemSize, new_cap * ElemSize, ElemAlign, os_ok),
                  LAMBDA r :
                      IF r.panic # ""
                      THEN [v |-> v, a |-> r.a, panic |-> r.panic, ret |-> 0]
                      ELSE [v |-> [v EXCEPT !.ptr = r.ptr, !.cap = r.len \div ElemSize,
                                            !.since = FALSE],
                            a |-> r.a, panic |-> "", ret |-> 0])

\* The test of reserve and reserve_exact.
ExceedsCap(additional, v) == additional > v.cap
ExceedsSpare(additional, v) == additional > v.cap - v.len

\* BVec::reserve
reserve(v, a, dbg, additional, os_ok) ==
    IF ExceedsSpare(additional, v) THEN grow(v, a, dbg, v.cap, additional, os_ok) ELSE Out(v, a)

\* BVec::reserve_exact
reserve_exact(v, a, dbg, additional, os_ok) ==
    IF ExceedsSpare(additional, v) THEN grow(v, a, dbg, 0, additional, os_ok) ELSE Out(v, a)

\* BVec::reserve_one
reserve_one(v, a, dbg, os_ok) ==
    IF v.len = v.cap THEN grow(v, a, dbg, v.cap, 1, os_ok) ELSE Out(v, a)

\* The slots written after a reserve that returned: the elements of s go to the
\* spare slots, the length grows by their number.
AppendElems(reserved, s) ==
    With(reserved, LAMBDA r :
        IF r.panic # "" THEN r
        ELSE [r EXCEPT !.v.len = r.v.len + Len(s),
                       !.a = WriteElems(r.a, r.v.ptr + r.v.len * ElemSize, s)])

\* BVec::push
push(v, a, dbg, value, os_ok) ==
    With(reserve_one(v, a, dbg, os_ok), LAMBDA r :
        [AppendElems(r, <<value>>) EXCEPT !.ret = IF r.panic = "" THEN r.v.ptr + r.v.len * ElemSize ELSE 0])

\* BVec::extend with an iterator whose len() is exact.
extend(v, a, dbg, iter, os_ok) == AppendElems(reserve(v, a, dbg, Len(iter), os_ok), iter)

PushNone(r, dbg, s, os_ok) == r
RECURSIVE PushAll(_, _, _, _)
PushAll(r, dbg, s, os_ok) ==
    With(r, LAMBDA q :
        IF s = <<>> \/ q.panic # "" THEN q
        ELSE PushAll(push(q.v, q.a, dbg, Head(s), os_ok), dbg, Tail(s), os_ok))

\* BVec::extend_sloppy; lower_bound is the iterator's size_hint().0.
extend_sloppy(v, a, dbg, iter, lower_bound, os_ok) ==
    [PushAll(reserve(v, a, dbg, lower_bound, os_ok), dbg, iter, os_ok) EXCEPT !.ret = 0]

\* BVec::push_repeat
push_repeat(v, a, dbg, value, total_copies, os_ok) ==
    IF total_copies = 0 THEN Out(v, a)
    ELSE AppendElems(reserve(v, a, dbg, total_copies, os_ok), [i \in 1..total_copies |-> value])

\* BVec::extend_from_slice
extend_from_slice(v, a, dbg, other, os_ok) ==
    AppendElems(reserve(v, a, dbg, Len(other), os_ok), other)

\* BVec::extend_from_within_impl
extend_from_within_impl(v, a, dbg, src_start, src_end, os_ok) ==
    LET end == Min2(src_end, v.len)
        beg == Min2(src_start, end)
        add == end - beg
    IN  With(reserve(v, a, dbg, add, os_ok), LAMBDA r :
            IF r.panic # "" THEN r
            ELSE [r EXCEPT !.v.len = r.v.len + add,
                           !.a.mem = MemCopy(r.a.mem, r.a.commit, r.v.ptr + beg * ElemSize,
                                             r.v.ptr + r.v.len * ElemSize, add * ElemSize)])

\* The tail is moved unless it is empty or stays where it is.
ShiftOnGrowth(tail_len, src_len, del_len) == tail_len > 0 /\ src_len > del_len
ShiftNeeded(tail_len, src_len, del_len) == tail_len > 0 /\ src_len # del_len

\* BVec::replace_range_impl
replace_range_impl(v, a, dbg, range_start, range_end, src, os_ok) ==
    LET dst_len == v.len
        src_len == Len(src)
        off == Min2(range_start, dst_len)
        del_len == Min2(SatSub(range_end, off), dst_len - off)
        tail_len == dst_len - off - del_len
        new_len == dst_len - del_len + src_len
    IN  IF del_len = 0 /\ src_len = 0 THEN Out(v, a)
        ELSE With(IF src_len > del_len THEN reserve(v, a, dbg, src_len - del_len, os_ok) ELSE Out(v, a),
                  LAMBDA r :
                      LET ptr == r.v.ptr + off * ElemSize
                      IN  IF r.panic # "" THEN r
                          ELSE With(IF ShiftNeeded(tail_len, src_len, del_len)
                                    THEN [r.a EXCEPT !.mem = MemCopy(r.a.mem, r.a.commit,
                                                                     ptr + del_len * ElemSize,
                                                                     ptr + src_len * ElemSize,
                                                                     tail_len * ElemSize)]
                                    ELSE r.a,
                                    LAMBDA shifted :
                                        set_len([r EXCEPT !.a = WriteElems(shifted, ptr, src)],
                                                dbg, new_len)))

\* ------------------------------------------------------------------ Vec<u16> (helpers::ReplaceRange)

\* A slot of a Vec's spare capacity that nothing was written to.
Uninit == 0 - 1

\* helpers::vec_replace_impl on the buffer of a Vec: the sequence of its slots.
vec_replace_impl(dst, range_start, range_end, src) ==
    LET dst_len == Len(dst)
        src_len == Len(src)
        off == Min2(range_start, dst_len)
        del_len == Min2(SatSub(range_end, off), dst_len - off)
        tail_len == dst_len - off - del_len
        new_len == dst_len - del_len + src_len
        buf == dst \o [i \in 1..SatSub(src_len, del_len) |-> Uninit]
        shifted == IF tail_len > 0 /\ src_len # del_len
                   THEN [i \in DOMAIN buf |->
                            IF off + src_len < i /\ i <= off + src_len + tail_len
                            THEN buf[i - src_len + del_len]
                            ELSE buf[i]]
                   ELSE buf
        copied == [i \in DOMAIN buf |-> IF off < i /\ i <= off + src_len THEN src[i - off] ELSE shifted[i]]
    IN  IF del_len = 0 /\ src_len = 0 THEN dst ELSE SubSeq(copied, 1, new_len)

\* ------------------------------------------------------------------ one BVec and its arena

\* The u16 whose two bytes are both k.
W(k) == k + 256 * k

VecCapacities == {1}
VecValues == {W(7)}
VecAdds == {1, 9}
VecSlices == {<<W(9), W(9), W(9), W(9)>>}
SloppySlices == {<<W(1), W(2), W(3)>>}
SloppyHints == {0, 5}
OtherSlices == {<<W(1), W(2), W(3), W(4), W(5)>>}
Copies == {0, 8}
WithinEnds == {3, USIZE_MAX}
RangeStarts == {1}
RangeEnds == {0, 3}
VecLens == {2}
OtherSizes == {3}

InitBVec ==
    /\ TextIdle
    /\ debug \in BOOLEAN
    /\ panic = ""
    /\ arena \in {ArenaNew(c) : c \in VecCapacities}
    /\ live = <<>>
    /\ observed = {0}
    /\ vcommits = <<>>
    /\ last = NoOp
    /\ nops = 0
    /\ vec = BVecEmpty(arena)
    /\ elems = <<>>
    /\ vlast = NoVecOp
    /\ vops = 0
    /\ ScratchIdle
    /\ limit = MaxVecOps

VecRunning == panic = "" /\ vops < limit

\* The state after a BVec method with outcome r; e is the sequence of elements the
\* caller has logically written, kept as history.
VDone(r, op, e) ==
    \E q \in {r} :
    /\ vec' = q.v
    /\ arena' = q.a
    /\ panic' = q.panic
    /\ elems' = IF q.panic = "" THEN e ELSE elems
    /\ vlast' = [op EXCEPT !.pre = vec, !.pre_a = arena, !.old = as_slice(vec, arena), !.ret = q.ret]
    /\ vops' = vops + 1
    /\ UNCHANGED <<debug, live, observed, vcommits, last, nops, scratchVars, textVars>>

Push(value, os_ok) ==
    /\ VecRunning
    /\ VDone(push(vec, arena, debug, value, os_ok),
             [NoVecOp EXCEPT !.op = "push", !.value = value], Append(elems, value))

Reserve(additional, os_ok) ==
    /\ VecRunning
    /\ VDone(reserve(vec, arena, debug, additional, os_ok),
             [NoVecOp EXCEPT !.op = "reserve", !.additional = additional], elems)

ReserveExact(additional, os_ok) ==
    /\ VecRunning
    /\ VDone(reserve_exact(vec, arena, debug, additional, os_ok),
             [NoVecOp EXCEPT !.op = "reserve_exact", !.additional = additional], elems)

Extend(iter, os_ok) ==
    /\ VecRunning
    /\ VDone(extend(vec, arena, debug, iter, os_ok),
             [NoVecOp EXCEPT !.op = "extend", !.src = iter], elems \o iter)

ExtendSloppy(iter, lower_bound, os_ok) ==
    /\ VecRunning
    /\ VDone(extend_sloppy(vec, arena, debug, iter, lower_bound, os_ok),
             [NoVecOp EXCEPT !.op = "extend_sloppy", !.src = iter, !.additional = lower_bound],
             elems \o iter)

PushRepeat(value, total_copies, os_ok) ==
    /\ VecRunning
    /\ VDone(push_repeat(vec, arena, debug, value, total_copies, os_ok),
             [NoVecOp EXCEPT !.op = "push_repeat", !.value = value, !.additional = total_copies],
             elems \o [i \in 1..total_copies |-> value])

ExtendFromSlice(other, os_ok) ==
    /\ VecRunning
    /\ VDone(extend_from_slice(vec, arena, debug, other, os_ok),
             [NoVecOp EXCEPT !.op = "extend_from_slice", !.src = other], elems \o other)

ExtendFromWithin(start, end, os_ok) ==
    /\ VecRunning
    /\ VDone(extend_from_within_impl(vec, arena, debug, start, end, os_ok),
             [NoVecOp EXCEPT !.op = "extend_from_within", !.start = start, !.end = end],
             elems \o SubSeq(elems, start + 1, Min2(end, Len(elems))))

\* The sequence that replace_range is to leave: old[..off] ++ src ++ old[off + del ..].
Spliced(old, start, end, src) ==
    LET off == Min2(start, Len(old))
        del == Min2(Max({end - off, 0}), Len(old) - off)
    IN  SubSeq(old, 1, off) \o src \o SubSeq(old, off + del + 1, Len(old))

ReplaceRange(start, end, src, os_ok) ==
    /\ VecRunning
    /\ VDone(replace_range_impl(vec, arena, debug, start, end, src, os_ok),
             [NoVecOp EXCEPT !.op = "replace_range", !.start = start, !.end = end, !.src = src],
             Spliced(elems, start, end, src))

Truncate(len) ==
    /\ VecRunning
    /\ VDone(Out(truncate(vec, len), arena),
             [NoVecOp EXCEPT !.op = "truncate", !.additional = len],
             SubSeq(elems, 1, Min2(len, Len(elems))))

Clear ==
    /\ VecRunning
    /\ VDone(Out(clear(vec), arena), [NoVecOp EXCEPT !.op = "clear"], <<>>)

\* Something else is allocated on the arena the BVec lives on.
OtherAlloc(bytes, align, os_ok) ==
    /\ VecRunning
    /\ LET r == alloc_raw(arena, debug, bytes, align, os_ok)
       IN  VDone([v |-> [vec EXCEPT !.since = (r.panic = "" /\ r.len > 0) \/ vec.since],
                  a |-> r.a, panic |-> r.panic, ret |-> r.ptr],
                 [NoVecOp EXCEPT !.op = "alloc", !.additional = bytes], elems)

NextBVec ==
    \/ \E value \in VecValues, os_ok \in BOOLEAN : Push(value, os_ok)
    \/ \E additional \in VecAdds : Reserve(additional, TRUE)
    \/ \E additional \in VecAdds : ReserveExact(additional, TRUE)
    \/ \E iter \in VecSlices : Extend(iter, TRUE)
    \/ \E iter \in SloppySlices, lower_bound \in SloppyHints : ExtendSloppy(iter, lower_bound, TRUE)
    \/ \E value \in VecValues, n \in Copies : PushRepeat(value, n, TRUE)
    \/ \E other \in OtherSlices : ExtendFromSlice(other, TRUE)
    \/ \E start \in RangeStarts, end \in WithinEnds : ExtendFromWithin(start, end, TRUE)
    \/ \E start \in RangeStarts, end \in RangeEnds, src \in VecSlices :
          ReplaceRange(start, end, src, TRUE)
    \/ \E len \in VecLens : Truncate(len)
    \/ Clear
    \/ \E bytes \in OtherSizes : OtherAlloc(bytes, 1, TRUE)

SpecBVec == InitBVec /\ [][NextBVec]_vars

\* ------------------------------------------------------------------ claims about BVec

\* C16: after any sequence of the safe operations len <= cap, and the first len
\* slots of the buffer hold exactly the elements logically written.
C16_LenWithinCapAndContents ==
    panic = "" => /\ vec.len <= vec.cap
                  /\ as_slice(vec, arena) = elems

C16_Witness ==
    /\ panic = ""
    /\ vops = limit
    /\ vlast.op = "replace_range"
    /\ vec.len > 8
    /\ vec.ptr # vlast.pre.ptr
    /\ \E i \in DOMAIN elems : \E j \in DOMAIN elems : elems[i] # elems[j]

Grew == vec.cap # vlast.pre.cap

\* C17: a push that returns has grown the buffer only if it was full, and then
\* to a capacity of at least max(2 * old_cap, 8, old_len + 1); the value is in
\* slot old_len, len is one more, the elements before it are as they were, and
\* the reference returned is the address of slot old_len.
C17_Push ==
    (vlast.op = "push" /\ panic = "")
        => /\ Grew => vlast.pre.len = vlast.pre.cap
           /\ vlast.pre.len = vlast.pre.cap
                 => vec.cap >= Max({2 * vlast.pre.cap, 8, vlast.pre.len + 1})
           /\ vlast.pre.len < vlast.pre.cap
                 => /\ vec.ptr = vlast.pre.ptr
                    /\ arena.offset = vlast.pre_a.offset
           /\ vec.len = vlast.pre.len + 1
           /\ as_slice(vec, arena) = Append(vlast.old, vlast.value)
           /\ vlast.ret = vec.ptr + vlast.pre.len * ElemSize
           /\ ElemAt(arena.mem, vlast.ret) = vlast.value

\* A push to a full buffer of 8 elements.
C17_Witness ==
    /\ vlast.op = "push"
    /\ panic = ""
    /\ vlast.pre.len = 8
    /\ vlast.pre.cap = 8
    /\ vec.cap = 16
    /\ vec.len = 9

\* C18 as stated: reserve_exact does nothing when cap - len >= additional, leaves
\* room for `additional` more elements, and when it grows the new capacity is
\* exactly len + additional.
C18_ReserveExactIsExactFit ==
    (vlast.op = "reserve_exact" /\ panic = "")
        => /\ vec.cap - vec.len >= vlast.additional
           /\ vlast.pre.cap - vlast.pre.len >= vlast.additional
                 => (vec = vlast.pre /\ arena = vlast.pre_a)
           /\ Grew => vec.cap = vlast.pre.len + vlast.additional

GrowOps == {"push", "reserve", "reserve_exact"}

WasLastAlloc == vlast.pre.ptr + vlast.pre.cap * ElemSize = vlast.pre_a.offset

\* C19: a growth of a BVec whose buffer ends at the arena's offset moves the
\* offset by (new_cap - old_cap) * size_of::<T>() and leaves the base pointer and
\* the elements where they are; as long as nothing else is allocated on the arena
\* the buffer keeps ending at the offset, so no push or reserve relocates it. A
\* growth of a BVec whose buffer is not the last allocation moves the base
\* pointer to a fresh range at the end and copies the existing elements there.
C19_GrowInPlaceOrRelocate ==
    /\ (vlast.op \in GrowOps /\ panic = "" /\ Grew)
          => /\ RangeEq(arena.mem, vec.ptr, vlast.pre_a.mem, vlast.pre.ptr, vlast.pre.len * ElemSize)
             /\ IF WasLastAlloc
                THEN /\ arena.offset = vlast.pre_a.offset + (vec.cap - vlast.pre.cap) * ElemSize
                     /\ vec.ptr = vlast.pre.ptr
                ELSE /\ vec.ptr # vlast.pre.ptr
                     /\ vec.ptr >= vlast.pre_a.offset
                     /\ arena.offset = vec.ptr + vec.cap * ElemSize
    /\ (panic = "" /\ vec.cap > 0 /\ ~vec.since) => vec.ptr + vec.cap * ElemSize = arena.offset
    /\ (panic = "" /\ vlast.pre.cap > 0 /\ ~vlast.pre.since) => vec.ptr = vlast.pre.ptr

\* A full buffer of 8 elements, followed on the arena by another allocation, was
\* grown by a push: it moved, with its elements.
C19_Witness ==
    /\ vlast.op = "push"
    /\ panic = ""
    /\ Grew
    /\ ~WasLastAlloc
    /\ vlast.pre.len = 8
    /\ vlast.pre.ptr = 0
    /\ vec.ptr > 16
    /\ as_slice(vec, arena) = Append(vlast.old, vlast.value)

\* ------------------------------------------------------------------ replace_range on its own

ReplaceContents == {<<>>, <<1, 2, 3, 4, 5>>, <<1, 2, 3, 4, 5, 6, 7, 8>>}
ReplaceSlices == {<<>>, <<9>>, <<9, 9, 9, 9>>}
ReplaceStarts == {0, 1, 6}
ReplaceEnds == {0, 3, USIZE_MAX}

\* A BVec filled by extend_from_slice on a fresh arena, followed or not by another
\* allocation on that arena.
InitReplace ==
    /\ TextIdle
    /\ debug \in BOOLEAN
    /\ panic = ""
    /\ \E content \in ReplaceContents, follow \in BOOLEAN :
          LET a0 == ArenaNew(1)
              r == extend_from_slice(BVecEmpty(a0), a0, debug, content, TRUE)
              o == alloc_raw(r.a, debug, 3, 1, TRUE)
          IN  /\ vec = IF follow THEN [r.v EXCEPT !.since = TRUE] ELSE r.v
              /\ arena = IF follow THEN o.a ELSE r.a
              /\ elems = content
    /\ live = <<>>
    /\ observed = {0}
    /\ vcommits = <<>>
    /\ last = NoOp
    /\ nops = 0
    /\ vlast = NoVecOp
    /\ vops = 0
    /\ ScratchIdle
    /\ limit = MaxReplaceOps

NextReplace ==
    \E start \in ReplaceStarts, end \in ReplaceEnds, src \in ReplaceSlices, os_ok \in BOOLEAN :
        ReplaceRange(start, end, src, os_ok)

SpecReplace == InitReplace /\ [][NextReplace]_vars

\* C20: replace_range(range, src) leaves old[..off] ++ src ++ old[off + del ..]
\* with off = min(start, old_len) and del = min(max(end - off, 0), old_len - off),
\* of length old_len - del + src.len(); with del = 0 and an empty src neither the
\* vector nor the arena changes; and the elements are those that
\* helpers::vec_replace_impl leaves in a Vec with the same contents.
C20_ReplaceRange ==
    /\ vlast.op = "replace_range" => panic # "assertion failed: new_len <= self.cap"
    /\ (vlast.op = "replace_range" /\ panic = "")
          => LET old == vlast.old
                 off == Min2(vlast.start, Len(old))
                 del == Min2(Max({vlast.end - off, 0}), Len(old) - off)
             IN  /\ as_slice(vec, arena)
                       = SubSeq(old, 1, off) \o vlast.src \o SubSeq(old, off + del + 1, Len(old))
                 /\ vec.len = Len(old) - del + Len(vlast.src)
                 /\ (del = 0 /\ vlast.src = <<>>) => (vec = vlast.pre /\ arena = vlast.pre_a)
                 /\ as_slice(vec, arena) = vec_replace_impl(old, vlast.start, vlast.end, vlast.src)

\* [1,2,3,4,5] with 1..3 replaced by [9,9,9,9].
C20_Witness ==
    /\ vlast.op = "replace_range"
    /\ panic = ""
    /\ vlast.old = <<1, 2, 3, 4, 5>>
    /\ vlast.start = 1
    /\ vlast.end = 3
    /\ vlast.src = <<9, 9, 9, 9>>
    /\ as_slice(vec, arena) = <<1, 9, 9, 9, 9, 4, 5>>

\* C21: an extend that returns has grown the buffer at most once, to the capacity
\* one reserve(iter.len()) gives; len is larger by iter.len(), the new elements
\* are the iterator's items in order after the unchanged old ones, and
\* len <= cap. An extend_sloppy that returns leaves the same elements, whatever
\* lower bound the iterator's size hint gave.
C21_Extend ==
    /\ (vlast.op = "extend" /\ panic = "")
          => /\ vec.len = vlast.pre.len + Len(vlast.src)
             /\ as_slice(vec, arena) = vlast.old \o vlast.src
             /\ vec.len <= vec.cap
             /\ vec.cap = IF Len(vlast.src) > vlast.pre.cap - vlast.pre.len
                          THEN Max({2 * vlast.pre.cap, vlast.pre.len + Len(vlast.src), 8})
                          ELSE vlast.pre.cap
    /\ (vlast.op = "extend_sloppy" /\ panic = "")
          => LET e == extend(vlast.pre, vlast.pre_a, debug, vlast.src, TRUE)
             IN  /\ e.panic = ""
                 /\ as_slice(vec, arena) = as_slice(e.v, e.a)
                 /\ vec.len = e.v.len
                 /\ vec.len <= vec.cap

\* An extend_sloppy of three items whose size hint said five, on a vector that
\* had elements and had to grow.
C21_Witness ==
    /\ vlast.op = "extend_sloppy"
    /\ panic = ""
    /\ vlast.additional = 5
    /\ Len(vlast.src) = 3
    /\ vlast.pre.len > 0
    /\ Grew

\* ------------------------------------------------------------------ BString (collections/string.rs)

\* A BString is a BVec<u8>. The vector model above holds each byte b of the
\* string in one of its elements, as W(b); the methods of BVec never look at
\* the value of an element.
MaxStrOps == 2

REPLACEMENT_CHARACTER == 65533

ToElems(bytes) == [i \in 1..Len(bytes) |-> W(bytes[i])]

\* BString::as_bytes
as_bytes(v, a) == With(as_slice(v, a), LAMBDA s : [i \in 1..Len(s) |-> s[i] % 256])

\* char::encode_utf8
encode_utf8(ch) ==
    IF ch < 128 THEN <<ch>>
    ELSE IF ch < 2048 THEN <<192 + (ch \div 64), 128 + (ch % 64)>>
    ELSE IF ch < 65536 THEN <<224 + (ch \div 4096), 128 + ((ch \div 64) % 64), 128 + (ch % 64)>>
    ELSE <<240 + (ch \div 262144), 128 + ((ch \div 4096) % 64), 128 + ((ch \div 64) % 64), 128 + (ch % 64)>>

\* char::decode_utf16 mapped with unwrap_or(REPLACEMENT_CHARACTER): an unpaired
\* surrogate is one error, and the unit after an unpaired high surrogate is
\* decoded again.
RECURSIVE decode_utf16(_)
decode_utf16(string) ==
    IF string = <<>> THEN <<>>
    ELSE LET u == Head(string)
         IN  IF u < 55296 \/ u > 57343 THEN <<u>> \o decode_utf16(Tail(string))
             ELSE IF u >= 56320 THEN <<REPLACEMENT_CHARACTER>> \o decode_utf16(Tail(string))
             ELSE IF Len(string) < 2 THEN <<REPLACEMENT_CHARACTER>>
             ELSE IF string[2] < 56320 \/ string[2] > 57343
                  THEN <<REPLACEMENT_CHARACTER>> \o decode_utf16(Tail(string))
             ELSE <<65536 + (u - 55296) * 1024 + (string[2] - 56320)>>
                      \o decode_utf16(Tail(Tail(string)))

\* The lower bound of the size hint of a DecodeUtf16 over n units.
Utf16Hint(n) == (n + 1) \div 2

InRange(b, i, lo, hi) == i <= Len(b) /\ b[i] >= lo /\ b[i] <= hi

\* One step of the UTF-8 decoder at index i of b: a valid sequence and its
\* length, or the invalid sequence a Utf8Chunk reports (the longest prefix of
\* a well-formed sequence, at least one byte).
Utf8Seq(b, i) ==
    LET c == b[i]
        lo3 == IF c = 224 THEN 160 ELSE 128
        hi3 == IF c = 237 THEN 159 ELSE 191
        lo4 == IF c = 240 THEN 144 ELSE 128
        hi4 == IF c = 244 THEN 143 ELSE 191
    IN  IF c < 128 THEN [valid |-> TRUE, len |-> 1]
        ELSE IF c >= 194 /\ c <= 223
             THEN IF InRange(b, i + 1, 128, 191) THEN [valid |-> TRUE, len |-> 2]
                  ELSE [valid |-> FALSE, len |-> 1]
        ELSE IF c >= 224 /\ c <= 239
             THEN IF ~InRange(b, i + 1, lo3, hi3) THEN [valid |-> FALSE, len |-> 1]
                  ELSE IF ~InRange(b, i + 2, 128, 191) THEN [valid |-> FALSE, len |-> 2]
                  ELSE [valid |-> TRUE, len |-> 3]
        ELSE IF c >= 240 /\ c <= 244
             THEN IF ~InRange(b, i + 1, lo4, hi4) THEN [valid |-> FALSE, len |-> 1]
                  ELSE IF ~InRange(b, i + 2, 128, 191) THEN [valid |-> FALSE, len |-> 2]
                  ELSE IF ~InRange(b, i + 3, 128, 191) THEN [valid |-> FALSE, len |-> 3]
                  ELSE [valid |-> TRUE, len |-> 4]
        ELSE [valid |-> FALSE, len |-> 1]

\* <[u8]>::utf8_chunks: every chunk is a valid part followed by an invalid
\* sequence; only the last chunk can have an empty invalid sequence.
RECURSIVE ChunksFrom(_, _, _)
ChunksFrom(b, start, i) ==
    IF i > Len(b)
    THEN IF start > Len(b) THEN <<>>
         ELSE <<[valid |-> SubSeq(b, start, Len(b)), invalid |-> <<>>]>>
    ELSE LET s == Utf8Seq(b, i)
         IN  IF s.valid THEN ChunksFrom(b, start, i + s.len)
             ELSE <<[valid |-> SubSeq(b, start, i - 1), invalid |-> SubSeq(b, i, i + s.len - 1)]>>
                      \o ChunksFrom(b, i + s.len, i + s.len)

utf8_chunks(b) == ChunksFrom(b, 1, 1)

\* str::from_utf8(&vec).is_ok()
Utf8Ok(b) == LET c == utf8_chunks(b) IN c = <<>> \/ (Len(c) = 1 /\ c[1].invalid = <<>>)

\* BString::from_utf8: ret is 1 for Ok(Self { vec }), 0 for Err.
BString_from_utf8(v, a) == [Out(v, a) EXCEPT !.ret = IF Utf8Ok(as_bytes(v, a)) THEN 1 ELSE 0]

\* BString::push_str
BString_push_str(v, a, dbg, string, os_ok) == extend_from_slice(v, a, dbg, ToElems(string), os_ok)

\* The loop of BString::from_utf8_lossy over the chunks.
RECURSIVE LossyLoop(_, _, _, _)
LossyLoop(r, dbg, chunks, os_ok) ==
    IF chunks = <<>> \/ r.panic # "" THEN r
    ELSE LET chunk == Head(chunks)
         IN  With(BString_push_str(r.v, r.a, dbg, chunk.valid, os_ok), LAMBDA r1 :
                 With(IF r1.panic = "" /\ chunk.invalid # <<>>
                      THEN BString_push_str(r1.v, r1.a, dbg, encode_utf8(REPLACEMENT_CHARACTER), os_ok)
                      ELSE r1,
                      LAMBDA r2 : LossyLoop(r2, dbg, Tail(chunks), os_ok)))

AnyChunk(chunks) == chunks # <<>>
\* The first chunk exists and has an invalid sequence.
FirstInvalid(chunks) == chunks # <<>> /\ chunks[1].invalid # <<>>

\* BString::from_utf8_lossy
BString_from_utf8_lossy(v, a, dbg, os_ok) ==
    With(utf8_chunks(as_bytes(v, a)), LAMBDA chunks :
        IF FirstInvalid(chunks)
        THEN With(reserve(BVecEmpty(a), a, dbg, v.len, os_ok),
                  LAMBDA r : LossyLoop(r, dbg, chunks, os_ok))
        ELSE Out(v, a))

\* BString::from_str
BString_from_str(a, dbg, s, os_ok) == BString_push_str(BVecEmpty(a), a, dbg, s, os_ok)

\* BString::push
BString_push(v, a, dbg, ch, os_ok) ==
    LET utf8 == encode_utf8(ch)
    IN  With(reserve(v, a, dbg, 4, os_ok), LAMBDA r :
            IF r.panic # "" THEN r
            ELSE set_len([r EXCEPT !.a = WriteElems(r.a, r.v.ptr + r.v.len * ElemSize, ToElems(utf8))],
                         dbg, r.v.len + Len(utf8)))

RECURSIVE PushChars(_, _, _, _)
PushChars(r, dbg, chars, os_ok) ==
    IF chars = <<>> \/ r.panic # "" THEN r
    ELSE With(BString_push(r.v, r.a, dbg, Head(chars), os_ok),
              LAMBDA pushed : PushChars(pushed, dbg, Tail(chars), os_ok))

\* BString::extend; lower_bound is the iterator's size_hint().0.
BString_extend(v, a, dbg, iter, lower_bound, os_ok) ==
    With(reserve(v, a, dbg, lower_bound, os_ok), LAMBDA r : PushChars(r, dbg, iter, os_ok))

\* BString::push_utf16_lossy
BString_push_utf16_lossy(v, a, dbg, string, os_ok) ==
    BString_extend(v, a, dbg, decode_utf16(string), Utf16Hint(Len(string)), os_ok)

\* BString::from_utf16_lossy
BString_from_utf16_lossy(a, dbg, string, os_ok) ==
    BString_push_utf16_lossy(BVecEmpty(a), a, dbg, string, os_ok)

\* char::is_ascii
IsAscii(ch) == ch < 128

RepeatEndAll(final_len, len, initial_len) == len
\* The end of the range the next round of push_repeat copies.
RepeatEnd(final_len, len, initial_len) == Min2(final_len - len + initial_len, len)

\* The while loop of BString::push_repeat. Every round that makes progress adds
\* at least one copy, so total_copies rounds are enough for it to end; a loop
\* that uses them up without reaching final_len never ends.
RECURSIVE RepeatLoop(_, _, _, _, _, _)
RepeatLoop(r, dbg, initial_len, final_len, rounds, os_ok) ==
    IF r.panic # "" \/ r.v.len = final_len THEN r
    ELSE IF rounds = 0 THEN [r EXCEPT !.panic = "push_repeat: the loop does not end"]
    ELSE With(extend_from_within_impl(r.v, r.a, dbg, initial_len,
                                      RepeatEnd(final_len, r.v.len, initial_len), os_ok),
              LAMBDA copied : RepeatLoop(copied, dbg, initial_len, final_len, rounds - 1, os_ok))

\* BString::push_repeat
BString_push_repeat(v, a, dbg, ch, total_copies, os_ok) ==
    IF total_copies = 0 THEN Out(v, a)
    ELSE IF IsAscii(ch) THEN push_repeat(v, a, dbg, W(ch), total_copies, os_ok)
    ELSE LET utf8 == encode_utf8(ch)
             initial_len == v.len
             added_len == Len(utf8) * total_copies
             final_len == initial_len + added_len
         IN  With(reserve(v, a, dbg, added_len, os_ok), LAMBDA r0 :
                 With(IF r0.panic # "" THEN r0
                      ELSE extend_from_slice(r0.v, r0.a, dbg, ToElems(utf8), os_ok),
                      LAMBDA r1 : RepeatLoop(r1, dbg, initial_len, final_len, total_copies, os_ok)))

\* A range as RangeBounds gives it: the kind and the value of each bound.
Bounds(sk, s, ek, e) == [sk |-> sk, s |-> s, ek |-> ek, e |-> e]

\* BVec::replace_range
replace_range(v, a, dbg, range, src, os_ok) ==
    LET start == CASE range.sk = "Included" -> range.s
                   [] range.sk = "Excluded" -> range.s + 1
                   [] OTHER -> 0
        end == CASE range.ek = "Included" -> range.e + 1
                 [] range.ek = "Excluded" -> range.e
                 [] OTHER -> USIZE_MAX
    IN  replace_range_impl(v, a, dbg, start, end, src, os_ok)

OrPastEnd(s, index) == index = 0 \/ index >= Len(s) \/ s[index + 1] < 128 \/ s[index + 1] >= 192
\* str::is_char_boundary
is_char_boundary(s, index) ==
    IF index = 0 THEN TRUE
    ELSE IF index >= Len(s) THEN index = Len(s)
    ELSE s[index + 1] < 128 \/ s[index + 1] >= 192

EndCheckedRaw(range) == range.e
\* The index the end bound is checked at.
EndChecked(range) == IF range.ek = "Included" THEN range.e + 1 ELSE range.e

\* BString::replace_range
BString_replace_range(v, a, dbg, range, replace_with, os_ok) ==
    LET s == as_bytes(v, a)
        start_ok == CASE range.sk = "Included" -> is_char_boundary(s, range.s)
                      [] range.sk = "Excluded" -> is_char_boundary(s, range.s + 1)
                      [] OTHER -> TRUE
        end_ok == range.ek = "Unbounded" \/ is_char_boundary(s, EndChecked(range))
    IN  IF ~start_ok \/ ~end_ok
        THEN [Out(v, a) EXCEPT !.panic = "assertion failed: self.is_char_boundary(n)"]
        ELSE replace_range(v, a, dbg, range, ToElems(replace_with), os_ok)

\* str::find: the byte index of the first match, -1 for None.
find(s, pat) ==
    LET at == {i \in 0..(Len(s) - Len(pat)) : SubSeq(s, i + 1, i + Len(pat)) = pat}
    IN  IF at = {} THEN 0 - 1 ELSE CHOOSE i \in at : \A j \in at : i <= j

\* BString::replace_once_in_place
BString_replace_once_in_place(v, a, dbg, old, new, os_ok) ==
    LET beg == find(as_bytes(v, a), old)
    IN  IF beg >= 0
        THEN replace_range(v, a, dbg, Bounds("Included", beg, "Excluded", beg + Len(old)),
                           ToElems(new), os_ok)
        ELSE Out(v, a)

\* "€a"
Strs == {<<226, 130, 172, 97>>}
\* "a€" and "a\xFFb"
Utf8Inputs == {<<97, 226, 130, 172>>, <<97, 255, 98>>}
\* and a cut-off U+20AC followed by "a", two stray bytes
ByteInputs == Utf8Inputs \cup {<<226, 130, 97>>, <<255, 128>>}
\* "a" then U+1F60A; an unpaired high surrogate then "a"; an unpaired low surrogate
Utf16Inputs == {<<97, 55357, 56842>>, <<55357, 97>>, <<56842>>}
\* The character and the number of copies; the long run is asked for on an
\* empty string.
RepeatInputs(v) ==
    {<<120, 0>>, <<120, 2>>, <<128522, 3>>, <<8364, 5>>}
        \cup (IF v.len = 0 THEN {<<120, 1000>>} ELSE {})
StrRanges == {Bounds("Included", 0, "Excluded", 3), Bounds("Included", 1, "Excluded", 3),
              Bounds("Included", 0, "Included", 2), Bounds("Included", 0, "Included", 1),
              Bounds("Excluded", 2, "Unbounded", 0), Bounds("Unbounded", 0, "Excluded", 9),
              Bounds("Included", 3, "Excluded", 0)}
OldStrs == {<<97>>, <<226, 130, 172>>}

InitString ==
    /\ TextIdle
    /\ debug \in BOOLEAN
    /\ panic = ""
    /\ arena \in {ArenaNew(c) : c \in VecCapacities}
    /\ live = <<>>
    /\ observed = {0}
    /\ vcommits = <<>>
    /\ last = NoOp
    /\ nops = 0
    /\ vec = BVecEmpty(arena)
    /\ elems = <<>>
    /\ vlast = NoVecOp
    /\ vops = 0
    /\ ScratchIdle
    /\ limit = MaxStrOps

\* The state after a BString method with outcome r.
SDone(r, op) == \E q \in {r} : VDone(q, op, as_slice(q.v, q.a))

StrFromStr(s) ==
    /\ VecRunning
    /\ SDone(BString_from_str(arena, debug, s, TRUE), [NoVecOp EXCEPT !.op = "from_str", !.src = s])

\* The caller's BVec<u8> holding the given bytes.
ByteVec(bytes) == extend_from_slice(BVecEmpty(arena), arena, debug, ToElems(bytes), TRUE)

\* On Err there is no new string; the one there was stays.
StrFromUtf8(bytes) ==
    /\ VecRunning
    /\ \E iv \in {ByteVec(bytes)} :
       \E r \in {BString_from_utf8(iv.v, iv.a)} :
           SDone(IF r.ret = 1 THEN r ELSE [r EXCEPT !.v = vec],
                 [NoVecOp EXCEPT !.op = "from_utf8", !.src = bytes])

StrFromUtf8Lossy(bytes) ==
    /\ VecRunning
    /\ \E iv \in {ByteVec(bytes)} :
           SDone(BString_from_utf8_lossy(iv.v, iv.a, debug, TRUE),
                 [NoVecOp EXCEPT !.op = "from_utf8_lossy", !.src = bytes, !.value = iv])

StrFromUtf16Lossy(string) ==
    /\ VecRunning
    /\ SDone(BString_from_utf16_lossy(arena, debug, string, TRUE),
             [NoVecOp EXCEPT !.op = "from_utf16_lossy", !.src = string])

StrPush(ch) ==
    /\ VecRunning
    /\ SDone(BString_push(vec, arena, debug, ch, TRUE), [NoVecOp EXCEPT !.op = "str_push", !.value = ch])

StrPushStr(s, os_ok) ==
    /\ VecRunning
    /\ SDone(BString_push_str(vec, arena, debug, s, os_ok), [NoVecOp EXCEPT !.op = "push_str", !.src = s])

StrPushRepeat(ch, total_copies) ==
    /\ VecRunning
    /\ SDone(BString_push_repeat(vec, arena, debug, ch, total_copies, TRUE),
             [NoVecOp EXCEPT !.op = "str_push_repeat", !.value = ch, !.additional = total_copies])

StrExtend(iter) ==
    /\ VecRunning
    /\ SDone(BString_extend(vec, arena, debug, iter, Len(iter), TRUE),
             [NoVecOp EXCEPT !.op = "str_extend", !.src = iter])

StrPushUtf16Lossy(string) ==
    /\ VecRunning
    /\ SDone(BString_push_utf16_lossy(vec, arena, debug, string, TRUE),
             [NoVecOp EXCEPT !.op = "push_utf16_lossy", !.src = string])

StrReplaceRange(range, replace_with) ==
    /\ VecRunning
    /\ SDone(BString_replace_range(vec, arena, debug, range, replace_with, TRUE),
             [NoVecOp EXCEPT !.op = "str_replace_range", !.value = range, !.src = replace_with])

StrReplaceOnceInPlace(old, new) ==
    /\ VecRunning
    /\ SDone(BString_replace_once_in_place(vec, arena, debug, old, new, TRUE),
             [NoVecOp EXCEPT !.op = "replace_once_in_place", !.value = old, !.src = new])

StrClear ==
    /\ VecRunning
    /\ SDone(Out(clear(vec), arena), [NoVecOp EXCEPT !.op = "str_clear"])

\* BStringFormatter::write_str
WriteStr(s) ==
    /\ VecRunning
    /\ SDone(BString_push_str(vec, arena, debug, s, TRUE), [NoVecOp EXCEPT !.op = "write_str", !.src = s])

\* BStringFormatter::write_char
WriteChar(c) ==
    /\ VecRunning
    /\ SDone(BString_push(vec, arena, debug, c, TRUE), [NoVecOp EXCEPT !.op = "write_char", !.value = c])

NextString ==
    \/ \E s \in Strs : StrFromStr(s)
    \/ \E bytes \in Utf8Inputs : StrFromUtf8(bytes)
    \/ \E bytes \in ByteInputs : StrFromUtf8Lossy(bytes)
    \/ \E string \in {<<55357, 97>>} : StrFromUtf16Lossy(string)
    \/ \E ch \in {128522} : StrPush(ch)
    \/ \E s \in Strs, os_ok \in BOOLEAN : StrPushStr(s, os_ok)
    \/ \E p \in RepeatInputs(vec) : StrPushRepeat(p[1], p[2])
    \/ \E iter \in {<<97, 8364>>} : StrExtend(iter)
    \/ \E string \in Utf16Inputs : StrPushUtf16Lossy(string)
    \/ \E range \in StrRanges, s \in {<<233>>} : StrReplaceRange(range, encode_utf8(s[1]))
    \/ \E old \in OldStrs : StrReplaceOnceInPlace(old, <<120, 120>>)
    \/ StrClear
    \/ \E s \in Strs : WriteStr(s)
    \/ \E c \in {8364} : WriteChar(c)

SpecString == InitString /\ [][NextString]_vars

IsCont(c) == c >= 128 /\ c <= 191

\* The number of bytes a sequence with this first byte has; 0 if no sequence
\* starts with it.
LeadLen(c) ==
    IF c < 128 THEN 1
    ELSE IF c >= 192 /\ c < 224 THEN 2
    ELSE IF c >= 224 /\ c < 240 THEN 3
    ELSE IF c >= 240 /\ c < 248 THEN 4
    ELSE 0

\* The code point the bytes of one sequence carry.
Scalar(q) ==
    IF Len(q) = 1 THEN q[1]
    ELSE IF Len(q) = 2 THEN (q[1] - 192) * 64 + (q[2] - 128)
    ELSE IF Len(q) = 3 THEN (q[1] - 224) * 4096 + (q[2] - 128) * 64 + (q[3] - 128)
    ELSE (q[1] - 240) * 262144 + (q[2] - 128) * 4096 + (q[3] - 128) * 64 + (q[4] - 128)

IsChar(cp) == cp >= 0 /\ cp <= 1114111 /\ ~(cp >= 55296 /\ cp <= 57343)

\* Valid UTF-8: every byte that is not a continuation byte starts the shortest
\* encoding of a Unicode scalar value, and every continuation byte belongs to
\* the sequence started up to three bytes before it.
IsValidUtf8(b) ==
    \A i \in 1..Len(b) :
        IF IsCont(b[i])
        THEN \E k \in 1..3 :
                /\ i - k >= 1
                /\ ~IsCont(b[i - k])
                /\ LeadLen(b[i - k]) > k
                /\ \A m \in 1..(k - 1) : IsCont(b[i - m])
        ELSE LET n == LeadLen(b[i])
             IN  /\ n > 0
                 /\ i + n - 1 <= Len(b)
                 /\ \A m \in 1..(n - 1) : IsCont(b[i + m])
                 /\ IsChar(Scalar(SubSeq(b, i, i + n - 1)))
                 /\ encode_utf8(Scalar(SubSeq(b, i, i + n - 1))) = SubSeq(b, i, i + n - 1)

\* C22: after any sequence of the safe public operations of BString, as_bytes()
\* is valid UTF-8.
C22_ValidUtf8 == IsValidUtf8(as_bytes(vec, arena))

\* A string with a multi-byte character after a replace_range that returned,
\* a from_utf8_lossy or a from_utf16_lossy that had something to replace.
C22_Witness ==
    /\ panic = ""
    /\ vops = 2
    /\ vlast.op \in {"str_replace_range", "from_utf8_lossy", "push_utf16_lossy"}
    /\ vec.len > 0
    /\ as_bytes(vec, arena) # vlast.old
    /\ \E i \in 1..vec.len : as_bytes(vec, arena)[i] >= 128

\* s can be cut at index i into two valid UTF-8 strings.
OnCharBoundary(s, i) ==
    i \in 0..Len(s) /\ IsValidUtf8(SubSeq(s, 1, i)) /\ IsValidUtf8(SubSeq(s, i + 1, Len(s)))

\* The index a bound of the given kind and value stands for, as a start and as an end.
StartIndex(range) == IF range.sk = "Excluded" THEN range.s + 1 ELSE range.s
EndIndex(range) == IF range.ek = "Included" THEN range.e + 1 ELSE range.e

OffBoundary(s, range) ==
    \/ range.sk # "Unbounded" /\ ~OnCharBoundary(s, StartIndex(range))
    \/ range.ek # "Unbounded" /\ ~OnCharBoundary(s, EndIndex(range))

\* C23: a BString::replace_range with a given bound that is not a char boundary
\* of the string (a bound past the end included) panics and leaves the bytes,
\* the length and the capacity as they were; any other call does what
\* BVec::replace_range does with the same range and replace_with's bytes, and
\* leaves the bytes before the range, replace_with, and the bytes after it.
C23_ReplaceRangeOnCharBoundaries ==
    vlast.op = "str_replace_range" =>
        LET s == as_bytes(vlast.pre, vlast.pre_a)
            range == vlast.value
            r == replace_range(vlast.pre, vlast.pre_a, debug, range, ToElems(vlast.src), TRUE)
        IN  IF OffBoundary(s, range)
            THEN /\ panic # ""
                 /\ vec = vlast.pre
                 /\ as_bytes(vec, arena) = s
            ELSE /\ panic = ""
                 /\ vec = r.v
                 /\ arena = r.a
                 /\ as_bytes(vec, arena) =
                        Spliced(s, IF range.sk = "Unbounded" THEN 0 ELSE StartIndex(range),
                                IF range.ek = "Unbounded" THEN USIZE_MAX ELSE EndIndex(range),
                                vlast.src)

\* A replace_range whose end is past the end of a non-empty string, and so panics.
C23_Witness ==
    /\ vlast.op = "str_replace_range"
    /\ vlast.pre.len > 0
    /\ vlast.value.ek = "Excluded"
    /\ vlast.value.e > vlast.pre.len
    /\ panic # ""

\* q repeated n times.
Repeated(q, n) == [i \in 1..(Len(q) * n) |-> q[((i - 1) % Len(q)) + 1]]

\* C24: BString::push_repeat(ch, n) returns (its loop ends) and leaves the
\* previous bytes followed by n copies of the UTF-8 encoding of ch, with
\* len = initial_len + n * len_utf8(ch) <= cap; for an ASCII character this is
\* BVec::push_repeat of the byte: len grows by n and the n new slots hold it.
\* 1000 copies of 'x' on an empty string give len 1000, three of U+1F60A add
\* 12 bytes.
C24_PushRepeat ==
    vlast.op = "str_push_repeat" =>
        LET utf8 == encode_utf8(vlast.value)
            n == vlast.additional
            slots == as_slice(vec, arena)
        IN  /\ panic = ""
            /\ vec.len = vlast.pre.len + n * Len(utf8)
            /\ vec.len <= vec.cap
            /\ as_bytes(vec, arena) = as_bytes(vlast.pre, vlast.pre_a) \o Repeated(utf8, n)
            /\ (vlast.value < 128 =>
                    /\ Len(utf8) = 1
                    /\ \A i \in (vlast.pre.len + 1)..(vlast.pre.len + n) :
                            slots[i] = W(vlast.value))
            /\ (vlast.value = 120 /\ n = 1000 /\ vlast.pre.len = 0 => vec.len = 1000)
            /\ (vlast.value = 128522 /\ n = 3 => vec.len = vlast.pre.len + 12)

\* Five copies of U+20AC after a non-empty string: the loop copies one, two and
\* then only one more.
C24_Witness ==
    /\ vlast.op = "str_push_repeat"
    /\ panic = ""
    /\ vlast.value = 8364
    /\ vlast.additional = 5
    /\ vlast.pre.len > 0
    /\ vec.len = vlast.pre.len + 15

\* The continuation bytes at the ends of the ranges a second byte can be in.
ProbeBytes == {128, 143, 144, 159, 160, 191}

\* p starts a well-formed sequence: some bytes after it complete one.
StartsSequence(p) ==
    \E n \in 1..3 : \E t \in [1..n -> ProbeBytes] :
        Len(p) + n = LeadLen(p[1]) /\ IsValidUtf8(p \o t)

\* The string from_utf8_lossy is to give: a well-formed sequence stays, and the
\* longest run of bytes that starts a well-formed sequence without completing
\* it (or one byte, if there is no such run) becomes one U+FFFD.
RECURSIVE LossyOf(_)
LossyOf(b) ==
    IF b = <<>> THEN <<>>
    ELSE LET n == LeadLen(b[1])
             fits == n > 0 /\ n <= Len(b) /\ IsValidUtf8(SubSeq(b, 1, n))
             runs == {k \in 1..Min2(3, Len(b)) : StartsSequence(SubSeq(b, 1, k))}
             k == IF runs = {} THEN 1 ELSE Max(runs)
         IN  IF fits THEN SubSeq(b, 1, n) \o LossyOf(SubSeq(b, n + 1, Len(b)))
             ELSE encode_utf8(REPLACEMENT_CHARACTER) \o LossyOf(SubSeq(b, k + 1, Len(b)))

\* C25: from_utf8_lossy of a buffer that is valid UTF-8 returns that buffer
\* (same pointer, length and capacity) and leaves the arena and its memory as
\* they were; of any other buffer it returns a valid UTF-8 string with the
\* valid parts unchanged and in order and one U+FFFD in the place of each
\* invalid sequence.
C25_FromUtf8Lossy ==
    (vlast.op = "from_utf8_lossy" /\ panic = "") =>
        IF IsValidUtf8(vlast.src)
        THEN /\ vec = vlast.value.v
             /\ arena = vlast.value.a
             /\ as_bytes(vec, arena) = vlast.src
        ELSE /\ IsValidUtf8(as_bytes(vec, arena))
             /\ as_bytes(vec, arena) = LossyOf(vlast.src)
             /\ vec.ptr # vlast.value.v.ptr
             /\ (vlast.src = <<97, 255, 98>> =>
                    as_bytes(vec, arena) = <<97, 239, 191, 189, 98>>)

\* "a\xFFb" has become "a\u{FFFD}b" in a new buffer.
C25_Witness ==
    /\ vlast.op = "from_utf8_lossy"
    /\ panic = ""
    /\ vlast.src = <<97, 255, 98>>
    /\ as_bytes(vec, arena) = <<97, 239, 191, 189, 98>>
    /\ vec.ptr # vlast.value.v.ptr

\* ------------------------------------------------------------------ the allocator a BVec records (debug builds)

MaxOwnerOps == 3

\* Two arenas and the global allocator.
Allocators == {"arena_a", "arena_b", "global"}

\* A BVec with its debug-only field alloc ("None" or Some(allocator), always
\* "None" in a release build, which has no such field) and, as history, the
\* owner of its buffer: the allocator that performed its latest
\* (re)allocation, "slice" for a borrowed slice, "none" for the dangling
\* pointer of an empty vector.
Tracked(len, cap, alloc, owner) ==
    [ptr |-> 0, len |-> len, cap |-> cap, since |-> FALSE, alloc |-> alloc, owner |-> owner]

\* BVec::empty
BVec_empty == Tracked(0, 0, "None", "none")

\* BVec::from_slice
from_slice(len) == Tracked(len, len, "None", "slice")

\* BVec::from_std_vec
from_std_vec(len, cap, dbg) == Tracked(len, cap, IF dbg THEN "global" ELSE "None", "global")

\* Option::is_none_or(|a| ptr::eq(a, alloc))
is_none_or(field, alloc) == field = "None" \/ field = alloc

\* BVec::grow as far as the record of the allocator goes: the assertion, the new
\* capacity, and alloc.realloc giving the buffer to the allocator passed in.
\* ret is 1: grow was entered.
GrowWith(v, dbg, alloc, cap, add) ==
    IF dbg /\ ~is_none_or(v.alloc, alloc)
    THEN [v |-> v, panic |-> "switching between allocators on a single BVec", ret |-> 1]
    ELSE [v |-> [v EXCEPT !.cap = GrowCap(cap, v.len, add), !.owner = alloc], panic |-> "", ret |-> 1]

\* BVec::reserve
ReserveWith(v, dbg, alloc, additional) ==
    IF ExceedsSpare(additional, v) THEN GrowWith(v, dbg, alloc, v.cap, additional)
    ELSE [v |-> v, panic |-> "", ret |-> 0]

\* BVec::push
PushWith(v, dbg, alloc) ==
    LET r == IF v.len = v.cap THEN GrowWith(v, dbg, alloc, v.cap, 1)
             ELSE [v |-> v, panic |-> "", ret |-> 0]
    IN  IF r.panic # "" THEN r ELSE [r EXCEPT !.v.len = r.v.len + 1]

\* BVec::into_std_vec: the Vec takes the buffer as the global allocator's.
into_std_vec(v, dbg) ==
    IF dbg /\ ~is_none_or(v.alloc, "global")
    THEN [v |-> v, panic |-> "BVec can only be converted into Vec if it was allocated with GlobalAlloc",
          ret |-> 0]
    ELSE [v |-> v, panic |-> "", ret |-> 0]

InitOwner ==
    /\ TextIdle
    /\ debug \in BOOLEAN
    /\ panic = ""
    /\ NoArenaOp
    /\ ScratchIdle
    /\ limit = MaxOwnerOps
    /\ vec = BVec_empty
    /\ elems = <<>>
    /\ vlast = NoVecOp
    /\ vops = 0

ODone(r, op) ==
    /\ vec' = r.v
    /\ panic' = r.panic
    /\ vlast' = [op EXCEPT !.pre = vec, !.ret = r.ret]
    /\ vops' = vops + 1
    /\ UNCHANGED <<debug, arenaVars, scratchVars, elems, textVars>>

NewEmpty ==
    /\ VecRunning
    /\ ODone([v |-> BVec_empty, panic |-> "", ret |-> 0], [NoVecOp EXCEPT !.op = "empty"])

FromSlice(len) ==
    /\ VecRunning
    /\ ODone([v |-> from_slice(len), panic |-> "", ret |-> 0], [NoVecOp EXCEPT !.op = "from_slice"])

FromStdVec(len, cap) ==
    /\ VecRunning
    /\ ODone([v |-> from_std_vec(len, cap, debug), panic |-> "", ret |-> 0],
             [NoVecOp EXCEPT !.op = "from_std_vec"])

OwnerPush(alloc) ==
    /\ VecRunning
    /\ ODone(PushWith(vec, debug, alloc), [NoVecOp EXCEPT !.op = "push", !.value = alloc])

OwnerReserve(alloc, additional) ==
    /\ VecRunning
    /\ ODone(ReserveWith(vec, debug, alloc, additional),
             [NoVecOp EXCEPT !.op = "reserve", !.value = alloc, !.additional = additional])

\* into_std_vec takes the vector by value: one that returns leaves no BVec, and
\* the next one starts empty.
IntoStdVec ==
    /\ VecRunning
    /\ LET r == into_std_vec(vec, debug)
       IN  ODone(IF r.panic = "" THEN [r EXCEPT !.v = BVec_empty] ELSE r,
                 [NoVecOp EXCEPT !.op = "into_std_vec"])

NextOwner ==
    \/ NewEmpty
    \/ \E len \in {2} : FromSlice(len)
    \/ \E len \in {0, 2} : FromStdVec(len, 2)
    \/ \E alloc \in Allocators : OwnerPush(alloc)
    \/ \E alloc \in Allocators, additional \in {1, 9} : OwnerReserve(alloc, additional)
    \/ IntoStdVec

SpecOwner == InitOwner /\ [][NextOwner]_vars

\* C26: in a debug build, a grow with an allocator other than the one that
\* performed the vector's previous (re)allocation fails an assertion, and so
\* does an into_std_vec of a vector whose buffer was allocated by anything but
\* the global allocator.
C26_MismatchedAllocatorAsserts ==
    debug =>
        /\ (vlast.op \in {"push", "reserve"} /\ vlast.ret = 1 /\ vlast.pre.owner \in Allocators
                /\ vlast.pre.owner # vlast.value) => panic # ""
        /\ (vlast.op = "into_std_vec" /\ vlast.pre.owner \notin {"global", "none"}) => panic # ""

\* ------------------------------------------------------------------ glob matching (edit/src/glob.rs)

\* std::path::is_separator on a Unix build
is_separator(c) == c = 47

to_ascii_lowercase(c) == IF c >= 65 /\ c <= 90 THEN c + 32 ELSE c

\* u8::eq_ignore_ascii_case
eq_ignore_ascii_case(a, b) == to_ascii_lowercase(a) = to_ascii_lowercase(b)

\* contains_magic
contains_magic(pattern) == \E i \in 1..Len(pattern) : pattern[i] = 42

\* match_path_suffix (not(windows))
match_path_suffix(path, suffix) ==
    IF Len(path) < Len(suffix) THEN FALSE
    ELSE \A i \in 1..Len(suffix) :
            eq_ignore_ascii_case(path[Len(path) - Len(suffix) + i], suffix[i])

\* strip_prefix(prefix).is_some()
StartsWith(s, prefix) == Len(s) >= Len(prefix) /\ SubSeq(s, 1, Len(prefix)) = prefix

None == [some |-> FALSE, val |-> FALSE]
Some(b) == [some |-> TRUE, val |-> b]

\* fast_path
fast_path(pattern, name) ==
    IF ~StartsWith(pattern, <<42, 42, 47>>) THEN None
    ELSE LET after == SubSeq(pattern, 4, Len(pattern))
             star == after # <<>> /\ after[1] = 42
             suffix == IF star THEN Tail(after) ELSE after
             needs_dir_anchor == ~star
         IN  IF after = <<>> THEN None
             ELSE IF suffix = <<>> \/ contains_magic(suffix) THEN None
             ELSE Some(/\ match_path_suffix(name, suffix)
                       /\ \/ ~needs_dir_anchor
                          \/ Len(name) = Len(suffix)
                          \/ is_separator(name[Len(name) - Len(suffix)]))

\* The restart of slow_path after a mismatch is allowed.
CanRestart(name, next_nx, is_double_star) ==
    /\ next_nx > 0
    /\ next_nx <= Len(name)
    /\ (is_double_star \/ ~is_separator(name[next_nx]))

\* slow_path: the while loop, from the given values of its variables. px and nx
\* count the bytes consumed, so pattern[px] of the code is pattern[px + 1] here.
RECURSIVE SlowLoop(_, _, _, _, _, _, _)
SlowLoop(pattern, name, px, nx, next_px, next_nx, is_double_star) ==
    IF ~(px < Len(pattern) \/ nx < Len(name)) THEN TRUE
    ELSE IF px < Len(pattern) /\ pattern[px + 1] = 42
    THEN LET double == px + 1 < Len(pattern) /\ pattern[px + 2] = 42
             slash == /\ double
                      /\ px + 2 >= 3
                      /\ px + 2 < Len(pattern)
                      /\ pattern[px + 3] = 47
                      /\ pattern[px] = 47
             px1 == IF slash THEN px + 3 ELSE IF double THEN px + 2 ELSE px + 1
         IN  SlowLoop(pattern, name, px1, nx, px, nx + 1, double)
    ELSE IF px < Len(pattern) /\ nx < Len(name) /\ eq_ignore_ascii_case(name[nx + 1], pattern[px + 1])
    THEN SlowLoop(pattern, name, px + 1, nx + 1, next_px, next_nx, is_double_star)
    ELSE IF CanRestart(name, next_nx, is_double_star)
    THEN SlowLoop(pattern, name, next_px, next_nx, next_px, next_nx, is_double_star)
    ELSE FALSE

\* slow_path
slow_path(pattern, name) == SlowLoop(pattern, name, 0, 0, 0, 0, FALSE)

\* glob
glob(pattern, name) ==
    LET fast == fast_path(pattern, name)
    IN  IF fast.some THEN fast.val ELSE slow_path(pattern, name)

\* glob_match
glob_match(pattern, name) == glob(pattern, name)

GlobPatterns ==
    { <<97, 42>>,   \* "a*"
     <<97, 42, 98>>,   \* "a*b"
     <<97, 42, 47, 98>>,   \* "a*/b"
     <<42, 42>>,   \* "**"
     <<97, 42, 42, 99>>,   \* "a**c"
     <<97, 47, 42, 42, 99>>,   \* "a/**c"
     <<97, 42, 42, 47, 99>>,   \* "a**/c"
     <<97, 47, 42, 42, 47, 99>>,   \* "a/**/c"
     <<97, 42, 98, 42, 42, 99>>,   \* "a*b**c"
     <<97, 42, 42, 98, 42, 99>>,   \* "a**b*c"
     <<42, 42, 47, 42, 99>>,   \* "**/*c"
     <<42, 42, 47, 99>>,   \* "**/c"
     <<65, 42, 67>>    \* "A*C"
    }

GlobNames ==
    { <<>>,   \* ""
     <<97>>,   \* "a"
     <<99>>,   \* "c"
     <<97, 98, 99>>,   \* "abc"
     <<65, 66, 67>>,   \* "ABC"
     <<97, 99>>,   \* "ac"
     <<97, 47, 99>>,   \* "a/c"
     <<97, 47, 98>>,   \* "a/b"
     <<97, 98, 47, 99>>,   \* "ab/c"
     <<97, 47, 98, 99>>,   \* "a/bc"
     <<97, 47, 98, 47, 99>>,   \* "a/b/c"
     <<97, 98, 47, 98, 99>>,   \* "ab/bc"
     <<97, 88, 98, 47, 89, 99>>    \* "aXb/Yc"
    }

\* The functions of the editor crate are called once, on given arguments; no
\* arena, scratch arena or vector of the model is involved.
OthersIdle ==
    /\ debug = FALSE
    /\ panic = ""
    /\ NoArenaOp
    /\ ScratchIdle
    /\ VecIdle
    /\ limit = 1

\* The state after the call.
Called(op, result) ==
    /\ ncalls = 0
    /\ output' = [op |-> op, result |-> result]
    /\ ncalls' = 1
    /\ UNCHANGED <<debug, panic, arenaVars, scratchVars, vecVars, input>>

InitGlob ==
    /\ OthersIdle
    /\ input \in {[pattern |-> pattern, name |-> name] : pattern \in GlobPatterns, name \in GlobNames}
    /\ output = <<>>
    /\ ncalls = 0

GlobMatch == Called("glob_match", glob_match(input.pattern, input.name))

NextGlob == GlobMatch

SpecGlob == InitGlob /\ [][NextGlob]_vars

\* name from index j on can be obtained from pattern from index i on: every
\* "*" stands for a string without a separator, every "**" for any string, and
\* "/**/" also for a single "/"; other bytes stand for themselves, letters in
\* either case.
RECURSIVE Derives(_, _, _, _)
Derives(pattern, i, name, j) ==
    IF i > Len(pattern) THEN j > Len(name)
    ELSE IF pattern[i] = 42 /\ i < Len(pattern) /\ pattern[i + 1] = 42
    THEN \/ \E k \in j..(Len(name) + 1) : Derives(pattern, i + 2, name, k)
         \/ /\ i > 1
            /\ pattern[i - 1] = 47
            /\ i + 2 <= Len(pattern)
            /\ pattern[i + 2] = 47
            /\ Derives(pattern, i + 3, name, j)
    ELSE IF pattern[i] = 42
    THEN \E k \in j..(Len(name) + 1) :
            /\ \A m \in j..(k - 1) : ~is_separator(name[m])
            /\ Derives(pattern, i + 1, name, k)
    ELSE /\ j <= Len(name)
         /\ eq_ignore_ascii_case(pattern[i], name[j])
         /\ Derives(pattern, i + 1, name, j + 1)

\* C27: glob_match(pattern, name) is true exactly when name can be obtained
\* from pattern by replacing every "*" with a string without a path separator
\* and every "**" with any string ("/**/" also with "/"), letters compared
\* without regard to case.
C27_GlobMatchesExactlyDerivedNames ==
    ncalls > 0 =>
        output.result = Derives(input.pattern, 1, input.name, 1)

\* ------------------------------------------------------------------ DocumentManager::parse_filename_goto

MaxPathLen == 4

\* CoordType is isize; isize::MAX of a 32-bit target.
COORD_MAX == 2147483647

NoNum == [some |-> FALSE, val |-> 0]

is_ascii_digit(b) == b >= 48 /\ b <= 57

\* The loop of parse: num.checked_mul(10)?.checked_add(digit)? for every byte.
RECURSIVE ParseLoop(_, _)
ParseLoop(s, num) ==
    IF s = <<>> THEN [some |-> TRUE, val |-> num]
    ELSE IF ~is_ascii_digit(Head(s)) THEN NoNum
    ELSE IF num > COORD_MAX \div 10 THEN NoNum
    ELSE IF num * 10 > COORD_MAX - (Head(s) - 48) THEN NoNum
    ELSE ParseLoop(Tail(s), num * 10 + (Head(s) - 48))

\* parse_filename_goto::parse
parse(s) == IF s = <<>> THEN NoNum ELSE ParseLoop(s, 0)

\* parse_filename_goto::find_colon_rev: the index (from 0) of the last colon
\* before offset, -1 for None.
find_colon_rev(bytes, offset) ==
    LET at == {i \in 0..(Min2(offset, Len(bytes)) - 1) : bytes[i + 1] = 58}
    IN  IF at = {} THEN 0 - 1 ELSE Max(at)

NoPoint == [some |-> FALSE, x |-> 0, y |-> 0]
Point(x, y) == [some |-> TRUE, x |-> x, y |-> y]

AnyName(colbeg) == TRUE
\* The name left of the first of two colons is not empty.
NameLeft(colbeg) == colbeg # 0

\* DocumentManager::parse_filename_goto
parse_filename_goto(bytes) ==
    LET colend == find_colon_rev(bytes, Len(bytes))
        last0 == parse(SubSeq(bytes, colend + 2, Len(bytes)))
        last1 == Max({last0.val - 1, 0})
        colbeg == find_colon_rev(bytes, colend)
        first0 == parse(SubSeq(bytes, colbeg + 2, colend))
        first == Max({first0.val - 1, 0})
    IN  IF ~(colend > 0) THEN [path |-> bytes, goto |-> NoPoint]
        ELSE IF ~last0.some THEN [path |-> bytes, goto |-> NoPoint]
        ELSE IF colbeg >= 0 /\ NameLeft(colbeg) /\ first0.some
             THEN [path |-> SubSeq(bytes, 1, colbeg), goto |-> Point(last1, first)]
        ELSE [path |-> SubSeq(bytes, 1, colend), goto |-> Point(0, last1)]

\* Paths over "a", ":", "2" and "0" up to MaxPathLen bytes, and longer ones
\* with numbers at and past the end of CoordType.
PathBytes == {97, 58, 50, 48}
LongPaths ==
    {<<97, 58, 50, 49, 52, 55, 52, 56, 51, 54, 52, 55>>,        \* "a:2147483647"
     <<97, 58, 50, 49, 52, 55, 52, 56, 51, 54, 52, 56>>,        \* "a:2147483648"
     <<97, 58, 50, 49, 52, 55, 52, 56, 51, 54, 53, 48>>,        \* "a:2147483650"
     <<97, 58, 48, 50, 49, 52, 55, 52, 56, 51, 54, 52, 55>>,    \* "a:02147483647"
     <<97, 58, 53, 58, 51, 48, 48, 48, 48, 48, 48, 48, 48, 48>>,   \* "a:5:3000000000"
     <<97, 58, 51, 48, 48, 48, 48, 48, 48, 48, 48, 48, 58, 53>>,   \* "a:3000000000:5"
     <<97, 98, 99, 58, 52, 53, 58, 49, 50, 51>>,                \* "abc:45:123"
     <<97, 98, 99, 58, 100, 101, 102, 58, 49, 50, 51>>}         \* "abc:def:123"
Paths == UNION {[1..k -> PathBytes] : k \in 0..MaxPathLen} \cup LongPaths

InitGoto ==
    /\ OthersIdle
    /\ input \in Paths
    /\ output = <<>>
    /\ ncalls = 0

ParseFilenameGoto == Called("parse_filename_goto", parse_filename_goto(input))

NextGoto == ParseFilenameGoto

SpecGoto == InitGoto /\ [][NextGoto]_vars

RECURSIVE StripZeros(_)
StripZeros(d) == IF d # <<>> /\ Head(d) = 48 THEN StripZeros(Tail(d)) ELSE d

\* The decimal digits of the largest CoordType.
CoordMaxDigits == <<50, 49, 52, 55, 52, 56, 51, 54, 52, 55>>

\* d, digits without leading zeros, is at most the largest CoordType.
AtMostCoordMax(d) ==
    \/ Len(d) < Len(CoordMaxDigits)
    \/ /\ Len(d) = Len(CoordMaxDigits)
       /\ \/ d = CoordMaxDigits
          \/ \E i \in 1..Len(d) :
                /\ d[i] < CoordMaxDigits[i]
                /\ \A j \in 1..(i - 1) : d[j] = CoordMaxDigits[j]

\* d is a non-empty string of decimal digits whose value fits in CoordType.
IsCoord(d) ==
    /\ d # <<>>
    /\ \A i \in 1..Len(d) : d[i] \in 48..57
    /\ AtMostCoordMax(StripZeros(d))

RECURSIVE Value(_)
Value(d) == IF d = <<>> THEN 0 ELSE 10 * Value(SubSeq(d, 1, Len(d) - 1)) + (d[Len(d)] - 48)

ZeroBased(d) == IF Value(d) >= 1 THEN Value(d) - 1 ELSE 0

\* What the claim has parse_filename_goto return for a path.
GotoOf(p) ==
    LET two == {c \in [a : 1..Len(p), b : 1..Len(p)] :
                   /\ c.a > 1
                   /\ c.a < c.b
                   /\ p[c.a] = 58
                   /\ p[c.b] = 58
                   /\ IsCoord(SubSeq(p, c.a + 1, c.b - 1))
                   /\ IsCoord(SubSeq(p, c.b + 1, Len(p)))}
        one == {b \in 2..Len(p) : p[b] = 58 /\ IsCoord(SubSeq(p, b + 1, Len(p)))}
    IN  IF two # {}
        THEN LET c == CHOOSE c \in two : TRUE
             IN  [path |-> SubSeq(p, 1, c.a - 1),
                  goto |-> [some |-> TRUE, x |-> ZeroBased(SubSeq(p, c.b + 1, Len(p))),
                            y |-> ZeroBased(SubSeq(p, c.a + 1, c.b - 1))]]
        ELSE IF one # {}
        THEN LET b == CHOOSE b \in one : TRUE
             IN  [path |-> SubSeq(p, 1, b - 1),
                  goto |-> [some |-> TRUE, x |-> 0, y |-> ZeroBased(SubSeq(p, b + 1, Len(p)))]]
        ELSE [path |-> p, goto |-> [some |-> FALSE, x |-> 0, y |-> 0]]

MAX_DEPTH == 64

MaxNest == 66
MaxBodyLen == 4

NoValue == [t |-> "", n |-> 0]

NoResult == [ok |-> FALSE, kind |-> "", pos |-> 0, val |-> NoValue]

\* Parser::new
Parser_new ==
    [op |-> "parse", pc |-> "parse", pos |-> 0, stack |-> <<>>,
     entered |-> 0 - 1, recursed |-> 0 - 1, result |-> NoResult]

\* Parser::fail, and the ? that hands the error up to parse().
fail(p, pos, kind) ==
    [p EXCEPT !.pc = "done", !.pos = pos,
              !.result = [ok |-> FALSE, kind |-> kind, pos |-> pos, val |-> NoValue]]

\* Parser::peek; -1 for None.
peek(b, pos) == IF pos < Len(b) THEN b[pos + 1] ELSE 0 - 1

\* Parser::is_str
is_str(b, pos, expected) ==
    pos + Len(expected) <= Len(b) /\ SubSeq(b, pos + 1, pos + Len(expected)) = expected

\* The first position from pos on whose byte is in the set, Len(b) if none.
FirstOf(b, pos, set) ==
    LET at == {p \in pos..(Len(b) - 1) : b[p + 1] \in set}
    IN  IF at = {} THEN Len(b) ELSE CHOOSE p \in at : \A q \in at : p <= q

\* The first position from pos on whose byte is not in the set, Len(b) if none.
FirstNotOf(b, pos, set) ==
    LET at == {p \in pos..(Len(b) - 1) : b[p + 1] \notin set}
    IN  IF at = {} THEN Len(b) ELSE CHOOSE p \in at : \A q \in at : p <= q

\* The position after the first "*/" from pos on, -1 if there is none.
BlockEnd(b, pos) ==
    LET at == {p \in pos..(Len(b) - 2) : b[p + 1] = 42 /\ b[p + 2] = 47}
    IN  IF at = {} THEN 0 - 1 ELSE (CHOOSE p \in at : \A q \in at : p <= q) + 2

\* Parser::skip_whitespace_and_comments
RECURSIVE skip_whitespace_and_comments(_, _)
skip_whitespace_and_comments(b, pos) ==
    LET p == FirstNotOf(b, pos, {32, 9, 10, 13})
    IN  IF p >= Len(b) THEN [ok |-> TRUE, pos |-> p]
        ELSE IF is_str(b, p, <<47, 47>>)
             THEN skip_whitespace_and_comments(b, FirstOf(b, p + 2, {10}))
        ELSE IF is_str(b, p, <<47, 42>>)
             THEN IF BlockEnd(b, p + 2) < 0 THEN [ok |-> FALSE, pos |-> p]
                  ELSE skip_whitespace_and_comments(b, BlockEnd(b, p + 2))
        ELSE [ok |-> TRUE, pos |-> p]

\* Parser::expect
expect(b, pos, expected) ==
    IF pos < Len(b) /\ b[pos + 1] = expected THEN [ok |-> TRUE, pos |-> pos + 1]
    ELSE [ok |-> FALSE, pos |-> pos]

\* Parser::expect_str
expect_str(b, pos, expected) ==
    IF is_str(b, pos, expected) THEN [ok |-> TRUE, pos |-> pos + Len(expected)]
    ELSE [ok |-> FALSE, pos |-> pos]

AllDigits(s) == s # <<>> /\ \A i \in 1..Len(s) : s[i] >= 48 /\ s[i] <= 57

\* digits, digits "." digits, digits ".", "." digits
IsMantissa(s) ==
    \/ AllDigits(s)
    \/ \E i \in 1..Len(s) :
          /\ s[i] = 46
          /\ i > 1 => AllDigits(SubSeq(s, 1, i - 1))
          /\ i < Len(s) => AllDigits(SubSeq(s, i + 1, Len(s)))
          /\ Len(s) > 1

IsExponent(s) ==
    \/ AllDigits(s)
    \/ s # <<>> /\ s[1] \in {43, 45} /\ AllDigits(Tail(s))

IsUnsigned(s) ==
    \/ IsMantissa(s)
    \/ \E i \in 1..Len(s) :
          /\ s[i] \in {101, 69}
          /\ IsMantissa(SubSeq(s, 1, i - 1))
          /\ IsExponent(SubSeq(s, i + 1, Len(s)))

\* str::parse::<f64>() is Ok, for a string of the bytes parse_number collects.
\* The size of the exponent, which decides is_finite(), is not looked at.
ParsesAsF64(s) ==
    /\ s # <<>>
    /\ IsUnsigned(s) \/ (s[1] \in {43, 45} /\ IsUnsigned(Tail(s)))

\* Parser::parse_number
parse_number(b, pos) ==
    LET end == FirstNotOf(b, pos, (48..57) \cup {46, 45, 43, 101, 69})
    IN  [ok |-> ParsesAsF64(SubSeq(b, pos + 1, end)), pos |-> end]

\* char::to_digit(16); -1 for None.
to_digit16(c) ==
    IF c >= 48 /\ c <= 57 THEN c - 48
    ELSE IF c >= 97 /\ c <= 102 THEN c - 87
    ELSE IF c >= 65 /\ c <= 70 THEN c - 55
    ELSE 0 - 1

\* Parser::parse_hex4; pos is the position after "\u". On Ok pos is past the
\* four digits and code is their value; on Err pos is the position given to fail().
parse_hex4(b, pos) ==
    LET d == [i \in 1..4 |-> to_digit16(b[pos + i])]
    IN  IF pos + 4 > Len(b) THEN [ok |-> FALSE, pos |-> pos - 2, code |-> 0]
        ELSE IF \E i \in 1..4 : d[i] < 0 THEN [ok |-> FALSE, pos |-> pos - 2, code |-> 0]
        ELSE [ok |-> TRUE, pos |-> pos + 4, code |-> ((d[1] * 16 + d[2]) * 16 + d[3]) * 16 + d[4]]

\* Parser::parse_unicode_escape; pos is the position after "\u".
parse_unicode_escape(b, pos) ==
    LET start == pos - 2
        hi == parse_hex4(b, pos)
        paired == is_str(b, hi.pos, <<92, 117>>)
        lo == parse_hex4(b, hi.pos + 2)
    IN  IF ~hi.ok THEN [ok |-> FALSE, pos |-> hi.pos]
        ELSE IF hi.code >= 55296 /\ hi.code <= 56319
             THEN IF paired /\ lo.ok /\ lo.code >= 56320 /\ lo.code <= 57343
                  THEN [ok |-> TRUE, pos |-> lo.pos]
                  ELSE [ok |-> FALSE, pos |-> start]
        ELSE IF hi.code >= 56320 /\ hi.code <= 57343 THEN [ok |-> FALSE, pos |-> start]
        ELSE [ok |-> TRUE, pos |-> hi.pos]

\* Parser::parse_escape; pos is the position after the backslash.
parse_escape(b, pos) ==
    IF pos >= Len(b) THEN [ok |-> FALSE, pos |-> pos]
    ELSE IF b[pos + 1] \in {34, 92, 47, 98, 102, 110, 114, 116} THEN [ok |-> TRUE, pos |-> pos + 1]
    ELSE IF b[pos + 1] = 117 THEN parse_unicode_escape(b, pos + 1)
    ELSE [ok |-> FALSE, pos |-> pos - 1]

\* The loop of parse_string.
RECURSIVE StringLoop(_, _)
StringLoop(b, pos) ==
    IF pos >= Len(b) THEN [ok |-> FALSE, pos |-> pos]
    ELSE IF b[pos + 1] = 34 THEN [ok |-> TRUE, pos |-> pos + 1]
    ELSE IF b[pos + 1] = 92
         THEN LET esc == parse_escape(b, pos + 1)
              IN  IF esc.ok THEN StringLoop(b, esc.pos) ELSE esc
    ELSE IF b[pos + 1] <= 31 THEN [ok |-> FALSE, pos |-> pos]
    ELSE StringLoop(b, FirstOf(b, pos + 1, {34, 92} \cup (0..31)))

\* Parser::parse_string
parse_string(b, pos) ==
    LET quote == expect(b, pos, 34)
    IN  IF quote.ok THEN StringLoop(b, quote.pos) ELSE quote

\* A value is returned to the caller of parse_value: to parse(), or to the
\* loop of the array or object around it, which has one more element and
\* expects a comma.
ReturnValue(p, pos, val) ==
    IF p.stack = <<>>
    THEN [p EXCEPT !.pc = "end", !.pos = pos, !.result = [NoResult EXCEPT !.val = val]]
    ELSE [p EXCEPT !.pc = "loop", !.pos = pos,
                   !.stack[Len(p.stack)] = [@ EXCEPT !.expects_comma = TRUE, !.n = @ + 1]]

\* A value without values inside it.
Leaf(p, r, t) ==
    IF r.ok THEN ReturnValue(p, r.pos, [t |-> t, n |-> 0]) ELSE fail(p, r.pos, "Syntax")

\* parse_array and parse_object up to their loop; pos is past the opening bracket.
Open(p, pos, t) ==
    [p EXCEPT !.pc = "loop", !.pos = pos,
              !.stack = Append(@, [t |-> t, expects_comma |-> FALSE, n |-> 0]),
              !.recursed = Max({@, Len(p.stack)})]

TooDeepPast(depth) == depth > MAX_DEPTH
\* parse_value: the depth is refused.
TooDeep(depth) == depth >= MAX_DEPTH

CommaAlways(expects_comma) == TRUE
\* parse_array, parse_object: a comma is accepted here.
CommaAllowed(expects_comma) == expects_comma

\* Parser::parse_value, up to its return or to the loop of parse_array or parse_object.
parse_value(b, p0) ==
    LET depth == Len(p0.stack)
        p == [p0 EXCEPT !.entered = Max({@, depth})]
        ws == skip_whitespace_and_comments(b, p.pos)
        ch == peek(b, ws.pos)
    IN  IF TooDeep(depth) THEN fail(p, p.pos, "MaxDepth")
        ELSE IF ~ws.ok THEN fail(p, ws.pos, "Syntax")
        ELSE IF ch < 0 THEN fail(p, ws.pos, "Syntax")
        ELSE IF ch = 110 THEN Leaf(p, expect_str(b, ws.pos, <<110, 117, 108, 108>>), "Null")
        ELSE IF ch = 116 THEN Leaf(p, expect_str(b, ws.pos, <<116, 114, 117, 101>>), "Bool")
        ELSE IF ch = 102 THEN Leaf(p, expect_str(b, ws.pos, <<102, 97, 108, 115, 101>>), "Bool")
        ELSE IF ch = 45 \/ (ch >= 48 /\ ch <= 57) THEN Leaf(p, parse_number(b, ws.pos), "Number")
        ELSE IF ch = 34 THEN Leaf(p, parse_string(b, ws.pos), "String")
        ELSE IF ch = 91 THEN Open(p, expect(b, ws.pos, 91).pos, "Array")
        ELSE IF ch = 123 THEN Open(p, expect(b, ws.pos, 123).pos, "Object")
        ELSE fail(p, ws.pos, "Syntax")

\* One round of the loop of parse_array, up to its call of parse_value, its
\* next round or its return.
parse_array(b, p) ==
    LET frame == p.stack[Len(p.stack)]
        ws == skip_whitespace_and_comments(b, p.pos)
        ch == peek(b, ws.pos)
        ws2 == skip_whitespace_and_comments(b, ws.pos + 1)
    IN  IF ~ws.ok THEN fail(p, ws.pos, "Syntax")
        ELSE IF ch < 0 THEN fail(p, ws.pos, "Syntax")
        ELSE IF ch = 93
             THEN ReturnValue([p EXCEPT !.stack = SubSeq(@, 1, Len(@) - 1)], ws.pos + 1,
                         [t |-> "Array", n |-> frame.n])
        ELSE IF ch = 44
             THEN IF ~CommaAllowed(frame.expects_comma) THEN fail(p, ws.pos, "Syntax")
                  ELSE IF ~ws2.ok THEN fail(p, ws2.pos, "Syntax")
                  ELSE [p EXCEPT !.pos = ws2.pos, !.stack[Len(p.stack)].expects_comma = FALSE]
        ELSE IF frame.expects_comma THEN fail(p, ws.pos, "Syntax")
        ELSE [p EXCEPT !.pc = "value", !.pos = ws.pos]

\* One round of the loop of parse_object, likewise.
parse_object(b, p) ==
    LET frame == p.stack[Len(p.stack)]
        ws == skip_whitespace_and_comments(b, p.pos)
        ch == peek(b, ws.pos)
        ws2 == skip_whitespace_and_comments(b, ws.pos + 1)
        key == parse_string(b, ws.pos)
        ws3 == skip_whitespace_and_comments(b, key.pos)
        colon == expect(b, ws3.pos, 58)
    IN  IF ~ws.ok THEN fail(p, ws.pos, "Syntax")
        ELSE IF ch < 0 THEN fail(p, ws.pos, "Syntax")
        ELSE IF ch = 44
             THEN IF ~CommaAllowed(frame.expects_comma) THEN fail(p, ws.pos, "Syntax")
                  ELSE IF ~ws2.ok THEN fail(p, ws2.pos, "Syntax")
                  ELSE [p EXCEPT !.pos = ws2.pos, !.stack[Len(p.stack)].expects_comma = FALSE]
        ELSE IF ch = 125
             THEN ReturnValue([p EXCEPT !.stack = SubSeq(@, 1, Len(@) - 1)], ws.pos + 1,
                         [t |-> "Object", n |-> frame.n])
        ELSE IF frame.expects_comma THEN fail(p, ws.pos, "Syntax")
        ELSE IF ~key.ok THEN fail(p, key.pos, "Syntax")
        ELSE IF ~ws3.ok THEN fail(p, ws3.pos, "Syntax")
        ELSE IF ~colon.ok THEN fail(p, colon.pos, "Syntax")
        ELSE [p EXCEPT !.pc = "value", !.pos = colon.pos]

\* Parser::skip_bom
skip_bom(b) == IF is_str(b, 0, <<239, 187, 191>>) THEN 3 ELSE 0

\* json::parse up to its call of parse_value(0).
json_parse(b, p) == [p EXCEPT !.pc = "value", !.pos = skip_bom(b)]

\* json::parse after parse_value(0) has returned.
parse_end(b, p) ==
    LET ws == skip_whitespace_and_comments(b, p.pos)
    IN  IF ~ws.ok THEN fail(p, ws.pos, "Syntax")
        ELSE IF ws.pos = Len(b)
             THEN [p EXCEPT !.pc = "done", !.pos = ws.pos, !.result.ok = TRUE, !.result.pos = ws.pos]
        ELSE fail(p, ws.pos, "Syntax")

JsonTexts ==
    {<<110, 117, 108, 108>>,   \* null
     <<116, 114, 117, 101>>,   \* true
     <<102, 97, 108, 115, 101>>,   \* false
     <<110, 117, 108>>,   \* nul
     <<45, 49, 46, 53, 101, 51>>,   \* -1.5e3
     <<49, 101>>,   \* 1e
     <<45>>,   \* -
     <<34, 97, 92, 110, 34>>,   \* "a\n"
     <<34, 92, 117, 48, 48, 52, 49, 34>>,   \* "\u0041"
     <<34, 92, 117, 68, 56, 51, 68, 92, 117, 68, 69, 48, 48, 34>>,   \* "\uD83D\uDE00"
     <<34, 92, 117, 68, 56, 51, 68, 34>>,   \* "\uD83D"
     <<34, 92, 117, 68, 69, 48, 48, 34>>,   \* "\uDE00"
     <<34, 92, 117, 48, 48, 34>>,   \* "\u00"
     <<34, 92, 120, 34>>,   \* "\x"
     <<34, 97>>,   \* "a
     <<34, 1, 34>>,   \* a control character in a string
     <<47, 47, 32, 99, 10, 49>>,   \* // c, newline, 1
     <<47, 42, 32, 99, 32, 42, 47, 32, 49>>,   \* /* c */ 1
     <<47, 42, 32, 99>>,   \* /* c
     <<49, 32, 120>>,   \* 1 x
     <<>>,   \* the empty input
     <<123, 34, 97, 34, 58, 125>>,   \* {"a":}
     <<123, 53, 58, 49, 125>>,   \* {5:1}
     <<239, 187, 191, 49>>,   \* a byte order mark and 1
     <<91, 49, 44, 32, 50, 44, 32, 123, 34, 97, 34, 58, 32, 91, 116, 114, 117, 101, 93, 125, 93>>,   \* [1, 2, {"a": [true]}]
     <<120>>}   \* x

\* k opening brackets and k closing ones.
Brackets(k) == Repeated(<<91>>, k) \o Repeated(<<93>>, k)

\* k objects, each the value of the key "a" of the one around it.
Braces(k) ==
    IF k = 0 THEN <<>>
    ELSE Repeated(<<123, 34, 97, 34, 58>>, k - 1) \o <<123, 125>> \o Repeated(<<125>>, k - 1)

\* A leading comma in front of k opening brackets and k closing ones, in an array.
CommaThenBrackets(k) == <<91, 44>> \o Brackets(k) \o <<93>>

\* An element and a comma of an array and of an object, with a space after it.
ElementText(shape, token) ==
    IF token = "," THEN <<44, 32>>
    ELSE IF shape = "array" THEN <<49, 32>>
    ELSE <<34, 97, 34, 58, 49, 32>>

RECURSIVE BodyText(_, _)
BodyText(shape, body) ==
    IF body = <<>> THEN <<>>
    ELSE ElementText(shape, Head(body)) \o BodyText(shape, Tail(body))

\* An array or an object with the given elements and commas between its
\* brackets, with and without the closing bracket.
ListText(shape, body, closed) ==
    (IF shape = "array" THEN <<91>> ELSE <<123>>)
        \o BodyText(shape, body)
        \o (IF ~closed THEN <<>> ELSE IF shape = "array" THEN <<93>> ELSE <<125>>)

Bodies == UNION {[1..k -> {"1", ","}] : k \in 0..MaxBodyLen}

JsonInput(shape, k, body, closed, text) ==
    [shape |-> shape, k |-> k, body |-> body, closed |-> closed, text |-> text]

JsonInputs ==
    {JsonInput("brackets", k, <<>>, TRUE, Brackets(k)) : k \in 0..MaxNest}
        \cup {JsonInput("braces", k, <<>>, TRUE, Braces(k)) : k \in 1..MaxNest}
        \cup {JsonInput("comma", k, <<>>, TRUE, CommaThenBrackets(k)) : k \in {MaxNest}}
        \cup {JsonInput(shape, 0, body, closed, ListText(shape, body, closed)) :
                shape \in {"array", "object"}, body \in Bodies, closed \in BOOLEAN}
        \cup {JsonInput("text", 0, <<>>, TRUE, text) : text \in JsonTexts}

InitJson ==
    /\ OthersIdle
    /\ input \in JsonInputs
    /\ output = Parser_new
    /\ ncalls = 0

\* The parser goes on to the given state; parse() has returned when it is done.
Parsing(pc, p) ==
    /\ ncalls = 0
    /\ output.pc = pc
    /\ output' = p
    /\ ncalls' = IF p.pc = "done" THEN 1 ELSE 0
    /\ UNCHANGED <<debug, panic, arenaVars, scratchVars, vecVars, input>>

ParseBegin == Parsing("parse", json_parse(input.text, output))

ParseValue == Parsing("value", parse_value(input.text, output))

ParseArray ==
    /\ output.stack # <<>>
    /\ output.stack[Len(output.stack)].t = "Array"
    /\ Parsing("loop", parse_array(input.text, output))

ParseObject ==
    /\ output.stack # <<>>
    /\ output.stack[Len(output.stack)].t = "Object"
    /\ Parsing("loop", parse_object(input.text, output))

ParseEnd == Parsing("end", parse_end(input.text, output))

NextJson ==
    \/ ParseBegin
    \/ ParseValue
    \/ ParseArray
    \/ ParseObject
    \/ ParseEnd

SpecJson == InitJson /\ [][NextJson]_vars

JsonDone == input \in JsonInputs /\ ncalls > 0

\* C29 as stated: parse_value is never entered with a depth over 64 and
\* parse_array and parse_object never run at a depth over 63; k opening
\* brackets followed by k closing ones parse iff k <= 64; every input that
\* nests arrays or objects deeper than 64 gives Err(MaxDepth).
C29_DepthBoundedAtSixtyFour ==
    input \in JsonInputs =>
        /\ output.entered <= 64
        /\ output.recursed <= 63
        /\ (ncalls > 0 /\ input.shape = "brackets") => (output.result.ok <=> input.k <= 64)
        /\ (ncalls > 0 /\ input.k > 64) =>
                (~output.result.ok /\ output.result.kind = "MaxDepth")

\* C29, amended: the same bounds on the depth, in every state of the parser; k
\* opening brackets followed by k closing ones, and k objects in each other,
\* parse iff 1 <= k <= 64 (no brackets are the empty input, a syntax error);
\* past 64 they give Err(MaxDepth) at the 65th opening bracket; an input
\* whose syntax error comes before its 65th level gives Err(Syntax).
C29_DepthBoundedFromOneBracket ==
    input \in JsonInputs =>
        /\ output.entered <= MAX_DEPTH
        /\ output.recursed <= MAX_DEPTH - 1
        /\ Len(output.stack) <= MAX_DEPTH
        /\ (ncalls > 0 /\ input.shape \in {"brackets", "braces"}) =>
                /\ output.result.ok <=> (1 <= input.k /\ input.k <= 64)
                /\ input.k > 64 =>
                      /\ output.result.kind = "MaxDepth"
                      /\ output.result.pos = 64 * (IF input.shape = "brackets" THEN 1 ELSE 5)
                      /\ output.entered = 64
                      /\ output.recursed = 63
                /\ input.k = 0 => output.result.kind = "Syntax"
        /\ (ncalls > 0 /\ input.shape = "comma") =>
                (output.result.kind = "Syntax" /\ output.result.pos = 1)

\* 65 brackets: parse_value was entered with depth 64 and refused it.
C29_Witness ==
    /\ JsonDone
    /\ input.shape = "brackets"
    /\ input.k = 65
    /\ output.result.kind = "MaxDepth"
    /\ output.entered = 64
    /\ output.recursed = 63

\* The body has its elements separated by one comma each, with or without one
\* more comma after the last element.
WellSeparated(body) ==
    \A i \in 1..Len(body) : body[i] = (IF i % 2 = 1 THEN "1" ELSE ",")

Elements(body) == Cardinality({i \in 1..Len(body) : body[i] = "1"})

\* C30: an array or an object parses iff its closing bracket is there and its
\* elements are separated by exactly one comma each, with at most one comma
\* after the last; a comma before the first element, two commas in a row, two
\* elements without a comma, and an input that ends before the closing
\* bracket are Err(Syntax).
C30_CommasBetweenElements ==
    (JsonDone /\ input.shape \in {"array", "object"}) =>
        IF input.closed /\ WellSeparated(input.body)
        THEN /\ output.result.ok
             /\ output.result.val.t = (IF input.shape = "array" THEN "Array" ELSE "Object")
             /\ output.result.val.n = Elements(input.body)
        ELSE /\ ~output.result.ok
             /\ output.result.kind = "Syntax"

\* An object of two entries with a comma after the second.
C30_Witness ==
    /\ JsonDone
    /\ input.shape = "object"
    /\ input.closed
    /\ input.body = <<"1", ",", "1", ",">>
    /\ output.result.ok
    /\ output.result.val.n = 2

\* ------------------------------------------------------------------ claims about the borrow counters

\* The handles alive over the arena <<o, i>>, oldest first.
HandlesOver(o, i) == SelectSeq(handles, LAMBDA h : h.owner = o /\ h.index = i)

\* C31: in a debug build in which no assertion has fired, the borrow counter of
\* every arena of every pair is the number of ScratchArenas alive over it, the
\* k-th oldest of them has the borrow id k, and the counter is 0 when none is
\* alive.
C31_BorrowCounterCountsLiveHandles ==
    (debug /\ panic = "") =>
        \A o \in Owners : \A i \in {0, 1} :
            LET over == HandlesOver(o, i)
            IN  /\ S_SCRATCH[o][i].borrows = Len(over)
                /\ \A k \in 1..Len(over) : over[k].borrow = k
                /\ over = <<>> => S_SCRATCH[o][i].borrows = 0

\* The newest of three borrows of one arena was dropped: two are alive, with
\* the ids 1 and 2.
C31_Witness ==
    /\ debug
    /\ panic = ""
    /\ slast.op = "drop"
    /\ \E o \in Owners : \E i \in {0, 1} :
          /\ Len(HandlesOver(o, i)) = 2
          /\ S_SCRATCH[o][i].borrows = 2
          /\ <<o, i>> = slast.target

\* ------------------------------------------------------------------ the debug build beside the release build

MaxTwinOps == 4
ReallocSizes == {1, 5}

\* One build's scratch arenas, its live ScratchArenas (oldest first), the ranges
\* it has handed out that are still allocated, what stopped it and what its last
\* call returned.
NoBuild ==
    [S |-> [o \in Owners |-> [i \in {0, 1} |-> ArenaEmpty]], H |-> <<>>, A |-> <<>>,
     panic |-> "", ret |-> <<0, 0>>]

NoTwinOp == [op |-> "none", thread |-> 0, id |-> 0, old |-> <<0, 0>>, size |-> 0]

\* debug::Arena::delegate_target, reached through Deref and through the Allocator
\* impl: only the newest borrow of the arena may be used. A release ScratchArena
\* holds the &Arena itself.
delegate_target_first(a, borrow, dbg) ==
    IF dbg /\ borrow # 1 THEN "Arena already borrowed by a newer ScratchArena" ELSE ""
delegate_target(a, borrow, dbg) ==
    IF dbg /\ borrow # a.borrows THEN "Arena already borrowed by a newer ScratchArena" ELSE ""

\* The position in H of the ScratchArena with the given id.
HandleAt(b, id) == CHOOSE k \in DOMAIN b.H : b.H[k].id = id

\* No ScratchArena created after H[k] over the same arena is alive.
InOrder(b, k) ==
    \A j \in DOMAIN b.H :
        (j > k) => ~(b.H[j].owner = b.H[k].owner /\ b.H[j].index = b.H[k].index)

\* The ranges over the arena <<o, i>> that end after `to` are gone after a reset.
StillAllocated(A, o, i, to) ==
    SelectSeq(A, LAMBDA x : ~(x.owner = o /\ x.index = i /\ x.ptr + x.len > to))

\* scratch::init(capacity) in one build.
BuildInit(b, dbg, capacity) ==
    IF mode = "single"
    THEN [b EXCEPT !.S[0] = [i \in {0, 1} |-> ArenaNew(capacity)], !.ret = <<0, 0>>]
    ELSE [b EXCEPT !.ret = <<0, 0>>]

\* scratch_arena(conflict) and ScratchArena::new in one build; ck is the position
\* of the ScratchArena passed as conflict, 0 for None.
BuildScratchArena(b, dbg, id, t, ck) ==
    LET owner == PairOf(t)
        conflict == IF ck = 0 THEN <<"none">> ELSE <<b.H[ck].owner, b.H[ck].index>>
        index == ScratchIndex(conflict, owner)
    IN  With(LazyInit(b.S[owner], index), LAMBDA pair :
        With(delegated(pair[index], dbg), LAMBDA a :
            [b EXCEPT !.S[owner] = [pair EXCEPT ![index] = a],
                      !.H = Append(b.H, [id |-> id, thread |-> t, owner |-> owner,
                                         index |-> index, offset |-> SavedOffset(pair[index]),
                                         borrow |-> a.borrows]),
                      !.ret = <<0, 0>>]))

\* A call through the ScratchArena H[k]: the arena operation, whose outcome is r,
\* runs if delegate_target did not panic.
BuildThrough(b, dbg, k, r) ==
    LET h == b.H[k]
        msg == delegate_target(b.S[h.owner][h.index], h.borrow, dbg)
    IN  IF msg # "" THEN [b EXCEPT !.panic = msg, !.ret = <<0, 0>>]
        ELSE [b EXCEPT !.S[h.owner][h.index] = r.a, !.panic = r.panic,
                       !.ret = <<r.ptr, r.len>>]

ArenaOf(b, k) == b.S[b.H[k].owner][b.H[k].index]

\* Arena::alloc_uninit* through H[k].
BuildAlloc(b, dbg, k, bytes, align, os_ok) ==
    With(BuildThrough(b, dbg, k, alloc_raw(ArenaOf(b, k), dbg, bytes, align, os_ok)), LAMBDA c :
        IF c.panic # "" THEN c
        ELSE [c EXCEPT !.A = Append(c.A, [owner |-> b.H[k].owner, index |-> b.H[k].index,
                                          via |-> b.H[k].id, ptr |-> c.ret[1],
                                          len |-> c.ret[2]])])

\* Allocator::realloc of the range A[j], through the ScratchArena that handed it out.
BuildRealloc(b, dbg, j, new_size, align, os_ok) ==
    LET x == b.A[j]
        k == HandleAt(b, x.via)
    IN  With(BuildThrough(b, dbg, k, realloc(ArenaOf(b, k), dbg, x.ptr, x.len, new_size, align,
                                             os_ok)), LAMBDA c :
            IF c.panic # "" THEN c
            ELSE [c EXCEPT !.A[j] = [x EXCEPT !.ptr = c.ret[1], !.len = c.ret[2]]])

\* Arena::reset through H[k], to the offset the ScratchArena began with.
BuildReset(b, dbg, k) ==
    LET h == b.H[k]
    IN  With(BuildThrough(b, dbg, k, [a |-> reset(ArenaOf(b, k), dbg, h.offset), ptr |-> 0,
                                      len |-> 0, panic |-> "", vc |-> <<>>]), LAMBDA c :
            IF c.panic # "" THEN c
            ELSE [c EXCEPT !.A = StillAllocated(c.A, h.owner, h.index, h.offset)])

\* Drop for ScratchArena (the reset, through Deref in a debug build), then Drop for
\* debug::Arena.
BuildDrop(b, dbg, k) ==
    LET h == b.H[k]
    IN  With(BuildReset(b, dbg, k), LAMBDA c :
            IF c.panic # "" THEN c
            ELSE [c EXCEPT !.S[h.owner][h.index] = ReleaseBorrow(c.S[h.owner][h.index], dbg),
                           !.H = SelectSeq(c.H, LAMBDA g : g.id # h.id)])

\* The same sequence of calls is made in a debug build, output.d, and in a release
\* build, output.r; output.lifo says whether every ScratchArena used or dropped so
\* far was the newest over its arena.
InitTwin ==
    /\ debug = FALSE
    /\ panic = ""
    /\ NoArenaOp
    /\ VecIdle
    /\ mode \in {"single", "multi"}
    /\ INIT_SIZE = 128 * MEBI
    /\ S_SCRATCH = [o \in Owners |-> [i \in {0, 1} |-> ArenaEmpty]]
    /\ handles = <<>>
    /\ slast = NoScratchOp
    /\ sops = 0
    /\ nested = TRUE
    /\ limit = MaxTwinOps
    /\ input = NoTwinOp
    /\ output = [d |-> NoBuild, r |-> NoBuild, lifo |-> TRUE]
    /\ ncalls = 0

TwinRunning ==
    /\ output.d.panic = ""
    /\ output.r.panic = ""
    /\ ncalls < limit

Twin(op, d, r, inorder) ==
    /\ output' = [d |-> d, r |-> r, lifo |-> output.lifo /\ inorder]
    /\ input' = op
    /\ ncalls' = ncalls + 1
    /\ UNCHANGED <<debug, panic, arenaVars, mode, S_SCRATCH, handles, slast, sops, nested, limit,
                   vecVars>>

TwinInit(t, capacity) ==
    /\ TwinRunning
    /\ t \in Callers
    /\ output.r.H = <<>>
    /\ INIT_SIZE' = IF mode = "multi" /\ capacity # 0 THEN capacity ELSE INIT_SIZE
    /\ Twin([NoTwinOp EXCEPT !.op = "init", !.thread = t, !.size = capacity],
            BuildInit(output.d, TRUE, capacity), BuildInit(output.r, FALSE, capacity), TRUE)

TwinScratchArena(t, ck) ==
    /\ TwinRunning
    /\ t \in Callers
    /\ ck \in {0} \cup {k \in DOMAIN output.r.H : output.r.H[k].thread = t}
    /\ UNCHANGED INIT_SIZE
    /\ Twin([NoTwinOp EXCEPT !.op = "scratch_arena", !.thread = t, !.id = ncalls + 1],
            BuildScratchArena(output.d, TRUE, ncalls + 1, t, ck),
            BuildScratchArena(output.r, FALSE, ncalls + 1, t, ck), TRUE)

TwinAlloc(k, bytes, align, os_ok) ==
    /\ TwinRunning
    /\ UNCHANGED INIT_SIZE
    /\ Twin([NoTwinOp EXCEPT !.op = "alloc", !.id = output.r.H[k].id, !.size = bytes],
            BuildAlloc(output.d, TRUE, k, bytes, align, os_ok),
            BuildAlloc(output.r, FALSE, k, bytes, align, os_ok), InOrder(output.r, k))

TwinRealloc(j, new_size, align, os_ok) ==
    /\ TwinRunning
    /\ \E k \in DOMAIN output.r.H : output.r.H[k].id = output.r.A[j].via
    /\ UNCHANGED INIT_SIZE
    /\ Twin([NoTwinOp EXCEPT !.op = "realloc", !.id = output.r.A[j].via,
                             !.old = <<output.r.A[j].ptr, output.r.A[j].len>>,
                             !.size = new_size],
            BuildRealloc(output.d, TRUE, j, new_size, align, os_ok),
            BuildRealloc(output.r, FALSE, j, new_size, align, os_ok),
            InOrder(output.r, HandleAt(output.r, output.r.A[j].via)))

TwinReset(k) ==
    /\ TwinRunning
    /\ UNCHANGED INIT_SIZE
    /\ Twin([NoTwinOp EXCEPT !.op = "reset", !.id = output.r.H[k].id],
            BuildReset(output.d, TRUE, k), BuildReset(output.r, FALSE, k), InOrder(output.r, k))

TwinDrop(k) ==
    /\ TwinRunning
    /\ UNCHANGED INIT_SIZE
    /\ Twin([NoTwinOp EXCEPT !.op = "drop", !.id = output.r.H[k].id],
            BuildDrop(output.d, TRUE, k), BuildDrop(output.r, FALSE, k), InOrder(output.r, k))

NextTwin ==
    \/ \E t \in Threads, capacity \in InitCaps : TwinInit(t, capacity)
    \/ \E t \in Threads, ck \in 0..MaxTwinOps : TwinScratchArena(t, ck)
    \/ \E k \in DOMAIN output.r.H, bytes \in ScratchSizes, align \in Aligns, os_ok \in BOOLEAN :
          TwinAlloc(k, bytes, align, os_ok)
    \/ \E j \in DOMAIN output.r.A, new_size \in ReallocSizes, os_ok \in BOOLEAN :
          TwinRealloc(j, new_size, 1, os_ok)
    \/ \E k \in DOMAIN output.r.H : TwinReset(k)
    \/ \E k \in DOMAIN output.r.H : TwinDrop(k)

SpecTwin == InitTwin /\ [][NextTwin]_vars

\* ------------------------------------------------------------------ claims about the two builds

\* What C32 compares: the offset and the commit of every arena, the ranges handed
\* out, the ScratchArenas alive and whether the build stopped.
Shape(b) ==
    [S |-> [o \in Owners |-> [i \in {0, 1} |->
               [offset |-> b.S[o][i].offset, commit |-> b.S[o][i].commit,
                capacity |-> b.S[o][i].capacity, empty |-> b.S[o][i].empty]]],
     H |-> [k \in DOMAIN b.H |-> [id |-> b.H[k].id, owner |-> b.H[k].owner,
                                  index |-> b.H[k].index, offset |-> b.H[k].offset]],
     A |-> b.A, panic |-> b.panic, ret |-> b.ret]

SameShape == Shape(output.d) = Shape(output.r)

\* The debug assertion of <Arena as Allocator>::realloc stopped the debug build;
\* the release build returned the old range and moved nothing.
ShrinkAssertion ==
    /\ input.op = "realloc"
    /\ input.size <= input.old[2]
    /\ output.d.panic = "only the last allocation can be shrunk"
    /\ output.r.panic = ""
    /\ output.r.ret = input.old
    /\ [Shape(output.d) EXCEPT !.panic = "", !.ret = input.old] = Shape(output.r)

\* C32 as stated: while the ScratchArenas are used and dropped newest first, both
\* builds have the same offsets and commits, handed out the same ranges and
\* stopped, if at all, at the same call.
C32_BuildsAgree == output.lifo => SameShape

\* C32, amended: while the ScratchArenas are used and dropped newest first, the
\* two builds agree at every step, except that a realloc to no more than the old
\* size of a range that is not the arena's last allocation stops the debug build
\* at a debug assertion of the arena itself, the release build returning the old
\* range with the arena unmoved.
C32_BuildsAgreeUpToShrinkAssertion ==
    output.lifo => (SameShape \/ ShrinkAssertion)

\* Two ScratchArenas over one arena, the newer one grew a range in place: the
\* debug build counts two borrows and filled the bytes, the release build did not.
C32_Witness ==
    /\ input.op = "realloc"
    /\ output.lifo
    /\ SameShape
    /\ output.r.ret[2] > input.old[2]
    /\ output.r.ret[1] = input.old[1]
    /\ \E o \in Owners : \E i \in {0, 1} :
          /\ output.d.S[o][i].borrows = 2
          /\ output.r.S[o][i].borrows = 0
          /\ output.d.S[o][i].mem # output.r.S[o][i].mem

\* ------------------------------------------------------------------ several threads, each with its pair

MaxThreadOps == 4

\* The multi-threaded build: the threads call init, scratch_arena, allocate and
\* drop in any interleaving; init may come at any time.
InitThreads ==
    /\ TextIdle
    /\ debug \in BOOLEAN
    /\ panic = ""
    /\ mode = "multi"
    /\ INIT_SIZE = 128 * MEBI
    /\ S_SCRATCH = [o \in Owners |-> [i \in {0, 1} |-> ArenaEmpty]]
    /\ handles = <<>>
    /\ slast = NoScratchOp
    /\ sops = 0
    /\ nested = TRUE
    /\ limit = MaxThreadOps
    /\ NoArenaOp
    /\ VecIdle

NextThreads ==
    \/ \E t \in Threads, capacity \in InitCaps : InitStore(t, capacity)
    \/ \E t \in Threads, c \in NoHandle..MaxThreadOps : ScratchArenaCall(t, c)
    \/ \E k \in DOMAIN handles, bytes \in ScratchSizes : AllocThrough(k, bytes, 4, TRUE)
    \/ \E k \in DOMAIN handles : DropHandle(k)

SpecThreads == InitThreads /\ [][NextThreads]_vars

\* C33: in the multi-threaded mode no arena backs ScratchArenas of two threads;
\* a step of a thread reads and writes only arenas of that thread's own pair, so
\* every arena is touched by one thread only; and what a thread's init stores,
\* the default capacity, is what another thread's lazy initialisation reads.
C33_ThreadsHaveTheirOwnPair ==
    [][/\ \A h1 \in HandleSet : \A h2 \in HandleSet :
             TargetOf(h1) = TargetOf(h2) => h1.thread = h2.thread
       /\ \A h \in HandleSet : h.owner = h.thread
       /\ \A o \in Owners : S_SCRATCH'[o] # S_SCRATCH[o] => o = slast'.thread
       /\ slast'.op \in {"scratch_arena", "alloc", "drop"} => slast'.target[1] = slast'.thread
       /\ S_SCRATCH'[0] = S_SCRATCH[0]
       /\ INIT_SIZE' # INIT_SIZE => slast'.op = "init"
       /\ \A o \in Owners : \A i \in {0, 1} :
             (S_SCRATCH[o][i].empty /\ ~S_SCRATCH'[o][i].empty)
                 => S_SCRATCH'[o][i].capacity = NewCapacity(INIT_SIZE)]_vars

\* Thread 1 holds a ScratchArena over an arena of the first default capacity;
\* after an init, thread 2 got one over an arena of the new default capacity
\* and allocated from it.
C33_Witness ==
    /\ slast.op = "alloc"
    /\ slast.thread = 2
    /\ panic = ""
    /\ \E h1 \in HandleSet : \E h2 \in HandleSet :
          /\ h1.thread = 1
          /\ h2.thread = 2
          /\ ArenaAt(TargetOf(h1)).capacity = 128 * MEBI
          /\ ArenaAt(TargetOf(h2)).capacity = NewCapacity(65537)
          /\ ArenaAt(TargetOf(h2)).offset > 0
          /\ ArenaAt(TargetOf(h1)).offset = 0

\* ------------------------------------------------------------------ the document manager

MaxDocOps == 4

\* Option::None of Document::path and Document::file_id.
NoPath == 0
NoFileId == 0

\* The paths add_file_path is called with, after parse_filename_goto and
\* path::normalize, and what File::open and sys::file_id find there: the second
\* path is another name of the first file, the last path names no file.
DocPaths == 1..4
FileIdAt(path) == <<1, 1, 2, NoFileId>>[path]

\* The decimal digits of n, as format! writes them.
RECURSIVE Decimal(_)
Decimal(n) ==
    IF n < 10 THEN <<<<"0", "1", "2", "3", "4", "5", "6", "7", "8", "9">>[n + 1]>>
    ELSE Decimal(n \div 10) \o Decimal(n % 10)

\* format!("Untitled-{new_file_counter}.txt")
UntitledName(new_file_counter) == <<"Untitled-">> \o Decimal(new_file_counter) \o <<".txt">>

\* Document::set_path: the filename is the last component of the path.
FileName(path) == <<"file", path>>

\* Iterator::position / Iterator::rposition over the list, 0 for None; f is the
\* set of the buffers of the documents the closure accepts.
position(list, f) ==
    IF \E k \in DOMAIN list : list[k].buffer \in f
    THEN CHOOSE k \in DOMAIN list :
             /\ list[k].buffer \in f
             /\ \A j \in DOMAIN list : (j < k) => list[j].buffer \notin f
    ELSE 0
rposition(list, f) ==
    IF \E k \in DOMAIN list : list[k].buffer \in f
    THEN CHOOSE k \in DOMAIN list :
             /\ list[k].buffer \in f
             /\ \A j \in DOMAIN list : (j > k) => list[j].buffer \notin f
    ELSE 0

\* DocumentManager::update_active: the last document the closure accepts is
\* backed up, the documents after it are shifted one slot to the front and the
\* backup is written to the last slot.
update_active(list, f) ==
    LET idx == rposition(list, f)
        amount == Len(list) - idx
        shifted == [k \in DOMAIN list |->
                       IF k >= idx /\ k < idx + amount THEN list[k + 1] ELSE list[k]]
    IN  IF idx = 0 THEN [list |-> list, ret |-> FALSE]
        ELSE IF idx = Len(list) THEN [list |-> list, ret |-> FALSE]
        ELSE [list |-> [shifted EXCEPT ![Len(list)] = list[idx]], ret |-> TRUE]

\* DocumentManager::remove_active
remove_active(list) == IF list = <<>> THEN list ELSE SubSeq(list, 1, Len(list) - 1)

\* DocumentManager::gen_untitled_name: one more than the largest counter in the list.
RECURSIVE MaxCounter(_, _)
MaxCounter(list, k) ==
    IF k > Len(list) THEN 0
    ELSE Max({list[k].new_file_counter, MaxCounter(list, k + 1)})
ActiveCounter(list) == IF list = <<>> THEN 1 ELSE list[Len(list)].new_file_counter + 1
NextCounter(list) == MaxCounter(list, 1) + 1

\* DocumentManager::add_untitled
add_untitled(list, buffer) ==
    With(NextCounter(list), LAMBDA new_file_counter :
        Append(list, [buffer |-> buffer, path |-> NoPath, file_id |-> NoFileId,
                      filename |-> UntitledName(new_file_counter),
                      new_file_counter |-> new_file_counter]))

\* The active document is a pristine Untitled document: add_file_path replaces it.
Pristine(list, dirty) ==
    /\ list # <<>>
    /\ list[Len(list)].path = NoPath
    /\ list[Len(list)].file_id = NoFileId
    /\ ~dirty

\* DocumentManager::add_file_path, once the file has been opened and read; dirty
\* is what is_dirty() says of the active document's buffer.
add_file_path(list, buffer, path, dirty) ==
    LET file_id == FileIdAt(path)
        found == IF file_id # NoFileId
                 THEN update_active(list, {list[k].buffer : k \in {j \in DOMAIN list :
                                                                    list[j].file_id = file_id}})
                 ELSE [list |-> list, ret |-> FALSE]
        doc == [buffer |-> buffer, path |-> path, file_id |-> file_id,
                filename |-> FileName(path), new_file_counter |-> 0]
    IN  IF found.ret THEN found.list
        ELSE Append(IF Pristine(list, dirty) THEN remove_active(list) ELSE list, doc)

NoDocOp == [op |-> "", path |-> NoPath, f |-> {}, ret |-> FALSE, ok |-> TRUE, pre |-> <<>>]

\* DocumentManager::default(): no document. output is the list, input the last
\* call, ncalls the number of calls, which also numbers the buffers created.
InitDocs ==
    /\ OthersIdle
    /\ input = NoDocOp
    /\ output = <<>>
    /\ ncalls = 0

DocCall(op, list) ==
    /\ ncalls < MaxDocOps
    /\ input' = [op EXCEPT !.pre = output]
    /\ output' = list
    /\ ncalls' = ncalls + 1
    /\ UNCHANGED <<debug, panic, arenaVars, scratchVars, vecVars>>

\* add_untitled; create_buffer may fail, and then nothing changes.
AddUntitled(ok) ==
    DocCall([NoDocOp EXCEPT !.op = "add_untitled", !.ok = ok],
            IF ok THEN add_untitled(output, ncalls + 1) ELSE output)

\* add_file_path; File::open (other than NotFound), sys::file_id, create_buffer
\* and read_file may fail, all before the list is touched.
AddFilePath(path, dirty, ok) ==
    DocCall([NoDocOp EXCEPT !.op = "add_file_path", !.path = path, !.ok = ok],
            IF ok THEN add_file_path(output, ncalls + 1, path, dirty) ELSE output)

UpdateActive(f) ==
    \E r \in {update_active(output, f)} :
        DocCall([NoDocOp EXCEPT !.op = "update_active", !.f = f, !.ret = r.ret], r.list)

RemoveActive == DocCall([NoDocOp EXCEPT !.op = "remove_active"], remove_active(output))

NextDocs ==
    \/ \E ok \in BOOLEAN : AddUntitled(ok)
    \/ \E path \in DocPaths, dirty \in BOOLEAN, ok \in BOOLEAN : AddFilePath(path, dirty, ok)
    \/ \E f \in SUBSET (1..MaxDocOps) : UpdateActive(f)
    \/ RemoveActive

SpecDocs == InitDocs /\ [][NextDocs]_vars

\* ------------------------------------------------------------------ claims about the document manager

\* C34: after add_file_path calls on existing files no two documents have the
\* same file_id, and add_file_path of a file that is already open, active or
\* not, adds no document and leaves the document of that file active.
C34_NoFileOpenTwice ==
    /\ \A j \in DOMAIN output : \A k \in DOMAIN output :
          (j # k /\ output[j].file_id # NoFileId) => output[j].file_id # output[k].file_id
    /\ (/\ input.op = "add_file_path"
        /\ input.ok
        /\ FileIdAt(input.path) # NoFileId
        /\ \E k \in DOMAIN input.pre : input.pre[k].file_id = FileIdAt(input.path))
           => /\ Len(output) = Len(input.pre)
              /\ output[Len(output)].file_id = FileIdAt(input.path)

\* What does hold of add_file_path: a file that is open but not active has its
\* document made the active one, and no document is added.
OpenInactiveFileIsActivated ==
    (/\ input.op = "add_file_path"
     /\ input.ok
     /\ FileIdAt(input.path) # NoFileId
     /\ \E k \in 1..(Len(input.pre) - 1) : input.pre[k].file_id = FileIdAt(input.path)
     /\ input.pre[Len(input.pre)].file_id # FileIdAt(input.path))
        => /\ Len(output) = Len(input.pre)
           /\ output[Len(output)].file_id = FileIdAt(input.path)

\* The positions of the documents a closure accepts.
Accepted(list, f) == {k \in DOMAIN list : list[k].buffer \in f}

\* The list without its k-th document.
Without(list, k) == SubSeq(list, 1, k - 1) \o SubSeq(list, k + 1, Len(list))

\* C38: update_active(f) leaves a permutation of the list, of the same length.
\* If the last document f accepts is not the active one, it is moved to the end,
\* the other documents keep their order and true is returned; if f accepts no
\* document, or the last one it accepts is the active one, the list is unchanged
\* and false is returned.
C38_UpdateActiveMovesLastMatch ==
    input.op = "update_active"
        => LET pre == input.pre
               hits == Accepted(pre, input.f)
           IN  /\ Len(output) = Len(pre)
               /\ \A d \in {pre[k] : k \in DOMAIN pre} :
                     Cardinality({k \in DOMAIN output : output[k] = d}) =
                         Cardinality({k \in DOMAIN pre : pre[k] = d})
               /\ IF hits # {} /\ Max(hits) # Len(pre)
                  THEN /\ output[Len(output)] = pre[Max(hits)]
                       /\ Without(output, Len(output)) = Without(pre, Max(hits))
                       /\ input.ret = TRUE
                  ELSE /\ output = pre
                       /\ input.ret = FALSE

\* The closure accepts the first two of three documents: the second is moved
\* behind the third.
C38_Witness ==
    /\ input.op = "update_active"
    /\ input.ret
    /\ Len(output) = 3
    /\ Accepted(input.pre, input.f) = {1, 2}
    /\ output = <<input.pre[1], input.pre[3], input.pre[2]>>

\* The largest new_file_counter in a list, 0 in an empty one.
LargestCounter(list) == Max({0} \cup {list[k].new_file_counter : k \in DOMAIN list})

\* C39: no two open documents share a nonzero new_file_counter and no two
\* untitled documents share a name; add_untitled appends a document whose
\* counter is one more than the largest counter open at that moment and whose
\* name is "Untitled-<counter>.txt".
C39_UntitledNamesAreDistinct ==
    /\ \A j \in DOMAIN output : \A k \in DOMAIN output :
          /\ (j # k /\ output[j].new_file_counter # 0)
                => output[j].new_file_counter # output[k].new_file_counter
          /\ (j # k /\ output[j].path = NoPath /\ output[k].path = NoPath)
                => output[j].filename # output[k].filename
    /\ \A k \in DOMAIN output :
          output[k].path = NoPath
              => /\ output[k].new_file_counter > 0
                 /\ output[k].filename =
                        <<"Untitled-">> \o Decimal(output[k].new_file_counter) \o <<".txt">>
    /\ (input.op = "add_untitled" /\ input.ok)
          => /\ Without(output, Len(output)) = input.pre
             /\ output[Len(output)].new_file_counter = 1 + LargestCounter(input.pre)

\* Untitled-1 and Untitled-2 were open, Untitled-1 was made active, and the next
\* untitled document is Untitled-3.
C39_Witness ==
    /\ input.op = "add_untitled"
    /\ input.ok
    /\ Len(output) = 3
    /\ output[1].new_file_counter = 2
    /\ output[2].new_file_counter = 1
    /\ output[3].filename = <<"Untitled-", "3", ".txt">>

\* ------------------------------------------------------------------ BVec's owning iterator

MaxIterLen == 3
MaxIterOps == 3
IterValues == 1..3

\* What the slot behind the last element may hold: it was never written, or it
\* holds a byte of whatever was allocated there.
Behind == {Uninit, 9}

\* <BVec as IntoIterator>::into_iter: ptr and end as slot numbers, from 0.
into_iter(len) == [ptr |-> 0, end |-> len]

\* ptr.read() of a slot; mem holds the elements and the slot behind them.
ReadSlot(mem, slot) == mem[slot + 1]

\* ExactSizeIterator::len
IterLen(it) == it.end - it.ptr

\* IntoIter::next
IterNext(it, mem) ==
    IF it.ptr = it.end THEN [it |-> it, ret |-> None, reads |-> {}]
    ELSE [it |-> [it EXCEPT !.ptr = it.ptr + 1], ret |-> Some(ReadSlot(mem, it.ptr)),
          reads |-> {it.ptr}]

\* IntoIter::next_back
IterNextBack(it, mem) ==
    IF it.ptr = it.end THEN [it |-> it, ret |-> None, reads |-> {}]
    ELSE [it |-> [it EXCEPT !.end = it.end - 1], ret |-> Some(ReadSlot(mem, it.end - 1)),
          reads |-> {it.end - 1}]

\* IntoIter::nth: the slot read is the one `ptr` names, the front.
NthSlot(ptr, n) == ptr
IterNth(it, mem, n) ==
    IF n >= IterLen(it) THEN [it |-> [it EXCEPT !.ptr = it.end], ret |-> None, reads |-> {}]
    ELSE [it |-> [it EXCEPT !.ptr = it.ptr + (n + 1)],
          ret |-> Some(ReadSlot(mem, NthSlot(it.ptr, n))), reads |-> {NthSlot(it.ptr, n)}]

\* IntoIter::fold: the slot read is the one self.ptr names after it was advanced.
\* The closure here appends, so that the result is the sequence of the closure's
\* arguments.
FoldSlot(ptr) == ptr + 1
RECURSIVE IterFold(_, _, _, _)
IterFold(it, mem, accum, reads) ==
    IF it.ptr = it.end THEN [it |-> it, ret |-> accum, reads |-> reads]
    ELSE IterFold([it EXCEPT !.ptr = it.ptr + 1], mem,
                  Append(accum, ReadSlot(mem, FoldSlot(it.ptr))), reads \cup {FoldSlot(it.ptr)})

SeqsUpTo(S, n) == UNION {[1..k -> S] : k \in 0..n}

\* A BVec of up to MaxIterLen elements was turned into its iterator.
InitIter ==
    /\ OthersIdle
    /\ input \in {[mem |-> s \o <<b>>, len |-> Len(s)] :
                     s \in SeqsUpTo(IterValues, MaxIterLen), b \in Behind}
    /\ output = [op |-> "into_iter", it |-> into_iter(input.len), ret |-> None, reads |-> {},
                 pre |-> into_iter(input.len), n |-> 0]
    /\ ncalls = 0

IterCall(op, n, r) ==
    /\ ncalls < MaxIterOps
    /\ output.op # "fold"
    /\ output' = [op |-> op, it |-> r.it, ret |-> r.ret, reads |-> r.reads, pre |-> output.it,
                  n |-> n]
    /\ ncalls' = ncalls + 1
    /\ UNCHANGED <<debug, panic, arenaVars, scratchVars, vecVars, input>>

CallNext == IterCall("next", 0, IterNext(output.it, input.mem))

CallNextBack == IterCall("next_back", 0, IterNextBack(output.it, input.mem))

CallNth(n) == IterCall("nth", n, IterNth(output.it, input.mem, n))

CallFold == IterCall("fold", 0, IterFold(output.it, input.mem, <<>>, {}))

NextIter ==
    \/ CallNext
    \/ CallNextBack
    \/ \E n \in 0..MaxIterLen : CallNth(n)
    \/ CallFold

SpecIter == InitIter /\ [][NextIter]_vars

\* ------------------------------------------------------------------ claims about the owning iterator

\* What n calls of next() leave: the iterator, the last value returned and the
\* values returned, in order.
RECURSIVE NextTimes(_, _, _, _)
NextTimes(it, mem, n, got) ==
    IF n = 0 THEN [it |-> it, got |-> got]
    ELSE LET r == IterNext(it, mem)
         IN  NextTimes(r.it, mem, n - 1, Append(got, r.ret))

\* The elements next() returns until it returns None.
Drained(it, mem) ==
    LET r == NextTimes(it, mem, IterLen(it), <<>>)
    IN  [k \in DOMAIN r.got |-> r.got[k].val]

\* C35: fold applies the closure to the remaining elements, front to back, each
\* once, as repeated next() would, and reads no slot outside [ptr, end).
C35_FoldVisitsRemainingElements ==
    output.op = "fold"
        => /\ output.ret = Drained(output.pre, input.mem)
           /\ output.reads \subseteq output.pre.ptr..(output.pre.end - 1)

\* C36: nth(n) returns what the last of n + 1 calls of next() returns and leaves
\* the iterator where they leave it; with n >= len() it returns None and leaves
\* the iterator exhausted.
C36_NthIsRepeatedNext ==
    output.op = "nth"
        => LET r == NextTimes(output.pre, input.mem, output.n + 1, <<>>)
           IN  /\ output.ret = r.got[output.n + 1]
               /\ output.it = r.it
               /\ output.n >= IterLen(output.pre)
                     => (output.ret = None /\ output.it.ptr = output.it.end)
               /\ output.n < IterLen(output.pre)
                     => /\ output.ret = Some(ReadSlot(input.mem, output.pre.ptr + output.n))
                        /\ output.it.ptr = output.pre.ptr + output.n + 1

\* ------------------------------------------------------------------ the fast path beside the general matcher

\* Patterns that begin with "**/", next to the ones above.
FastPatterns ==
    { <<42, 42, 47>>,   \* "**/"
     <<42, 42, 47, 42>>,   \* "**/*"
     <<42, 42, 47, 98, 99>>,   \* "**/bc"
     <<42, 42, 47, 42, 98, 99>>,   \* "**/*bc"
     <<42, 42, 47, 67>>,   \* "**/C"
     <<42, 42, 47, 98, 47, 99>>,   \* "**/b/c"
     <<42, 42, 47, 42, 47, 99>>,   \* "**/*/c"
     <<42, 42, 47, 97, 42, 99>>,   \* "**/a*c"
     <<42, 42, 47, 42, 42, 99>>    \* "**/**c"
    }

InitFast ==
    /\ OthersIdle
    /\ input \in {[pattern |-> pattern, name |-> name] :
                     pattern \in GlobPatterns \cup FastPatterns, name \in GlobNames}
    /\ output = <<>>
    /\ ncalls = 0

\* Both matchers are asked about the same pattern and name.
FastAndSlow ==
    Called("fast_path", [fast |-> fast_path(input.pattern, input.name),
                         slow |-> slow_path(input.pattern, input.name)])

NextFast == FastAndSlow

SpecFast == InitFast /\ [][NextFast]_vars

\* The suffix fast_path compares the end of the name with.
FastSuffix(pattern) ==
    IF Len(pattern) >= 4 /\ pattern[4] = 42 THEN SubSeq(pattern, 5, Len(pattern))
    ELSE SubSeq(pattern, 4, Len(pattern))

\* The byte before the suffix, which fast_path reads when a "**/name" pattern
\* matched the end of a longer name, is a byte of the name.
FastPathIndexInBounds ==
    (/\ ncalls > 0
     /\ output.result.fast.some
     /\ input.pattern[4] # 42
     /\ match_path_suffix(input.name, FastSuffix(input.pattern))
     /\ Len(input.name) # Len(FastSuffix(input.pattern)))
        => Len(input.name) - Len(FastSuffix(input.pattern)) \in 1..Len(input.name)

\* C37: whenever fast_path answers Some(b), slow_path answers b, and fast_path
\* reads no byte outside the name.
C37_FastPathAgreesWithSlowPath ==
    /\ (ncalls > 0 /\ output.result.fast.some) => output.result.fast.val = output.result.slow
    /\ FastPathIndexInBounds

\* ------------------------------------------------------------------ the arena's arithmetic in usize

\* usize is modelled with UsizeBits bits (ALLOC_CHUNK_SIZE keeps its value): a
\* sum, difference or product outside 0..UsizeMax panics in a debug build
\* (overflow checks) and wraps in a release build.
UsizeBits == 20
UsizeRange == 2 ^ UsizeBits
UsizeMax == UsizeRange - 1

NoWrap(exact, dbg) == [v |-> exact, panic |-> ""]
Arith(exact, dbg) ==
    [v |-> exact % UsizeRange,
     panic |-> IF dbg /\ (exact < 0 \/ exact > UsizeMax)
               THEN "arithmetic overflow" ELSE ""]

\* The outcome of a call that panicked before it changed the arena.
Panicked(a, msg) == [a |-> a, ptr |-> 0, len |-> 0, panic |-> msg]

\* Arena::alloc_raw_bump on the arena's numbers; the debug fill writes bytes only.
UsizeBump(a, dbg, beg, end, os_ok) ==
    With(Arith(end + ALLOC_CHUNK_SIZE, dbg), LAMBDA s :
    With(Arith(end - beg, dbg), LAMBDA len :
        LET commit_new == AndNot(Arith(s.v - 1, dbg).v, ALLOC_CHUNK_SIZE - 1)
            size == Arith(commit_new - a.commit, dbg)
        IN  IF s.panic # "" THEN Panicked(a, s.panic)
            ELSE IF commit_new > a.capacity THEN Panicked(a, "out of memory")
            ELSE IF size.panic # "" THEN Panicked(a, size.panic)
            ELSE IF ~os_ok THEN Panicked(a, "out of memory")
            ELSE [a |-> [a EXCEPT !.commit = commit_new, !.offset = end],
                  ptr |-> beg, len |-> len.v, panic |-> ""]))

\* Arena::alloc_raw on the arena's numbers.
UsizeAllocRaw(a, dbg, bytes, alignment, os_ok) ==
    With(Arith(a.offset + alignment, dbg), LAMBDA s :
    With(Arith(AndNot(Arith(s.v - 1, dbg).v, alignment - 1) + bytes, dbg), LAMBDA end :
        LET beg == AndNot(Arith(s.v - 1, dbg).v, alignment - 1)
        IN  IF s.panic # "" THEN Panicked(a, s.panic)
            ELSE IF end.panic # "" THEN Panicked(a, end.panic)
            ELSE IF end.v > a.commit THEN UsizeBump(a, dbg, beg, end.v, os_ok)
            ELSE [a |-> [a EXCEPT !.offset = end.v], ptr |-> beg, len |-> bytes, panic |-> ""]))

\* Arena::alloc_uninit_slice::<T>(count): the slice has `count` elements whatever
\* alloc_raw reserved.
UsizeAllocUninitSlice(a, dbg, size, count, os_ok) ==
    With(Arith(size * count, dbg), LAMBDA bytes :
        IF bytes.panic # "" THEN [Panicked(a, bytes.panic) EXCEPT !.len = 0]
        ELSE [UsizeAllocRaw(a, dbg, bytes.v, size, os_ok) EXCEPT !.len = size * count])

\* An arena as Arena::new and earlier allocations leave it: the capacity and the
\* commit are multiples of ALLOC_CHUNK_SIZE, offset <= commit <= capacity.
UsizeArenas ==
    {[capacity |-> capacity, commit |-> commit, offset |-> offset] :
        capacity \in {2 * ALLOC_CHUNK_SIZE, UsizeRange - ALLOC_CHUNK_SIZE},
        commit \in {0, ALLOC_CHUNK_SIZE, 2 * ALLOC_CHUNK_SIZE},
        offset \in {0, 3, ALLOC_CHUNK_SIZE, ALLOC_CHUNK_SIZE + 8}}

UsizeSizes ==
    {0, 1, 3, ALLOC_CHUNK_SIZE, UsizeRange \div 2, UsizeMax - ALLOC_CHUNK_SIZE, UsizeMax - 8,
     UsizeMax - 2, UsizeMax}

UsizeCounts ==
    {0, 1, 3, UsizeRange \div 8, UsizeRange \div 8 + 1, UsizeRange \div 2,
     UsizeRange \div 2 + 1, UsizeMax}

\* size_of::<T>() = align_of::<T>() of u8, u16 and u64.
ElemSizes == {1, 2, 8}

InitUsize ==
    /\ debug \in BOOLEAN
    /\ panic = ""
    /\ NoArenaOp
    /\ ScratchIdle
    /\ VecIdle
    /\ limit = 1
    /\ input \in {a \in UsizeArenas : a.offset <= a.commit /\ a.commit <= a.capacity}
    /\ output = <<>>
    /\ ncalls = 0

AllocRawCall(bytes, alignment, os_ok) ==
    Called("alloc_raw", [size |-> 1, count |-> bytes,
                         r |-> UsizeAllocRaw(input, debug, bytes, alignment, os_ok)])

AllocUninitSliceCall(size, count, os_ok) ==
    Called("alloc_uninit_slice", [size |-> size, count |-> count,
                                  r |-> UsizeAllocUninitSlice(input, debug, size, count, os_ok)])

NextUsize ==
    \/ \E bytes \in UsizeSizes, alignment \in ElemSizes, os_ok \in BOOLEAN :
          AllocRawCall(bytes, alignment, os_ok)
    \/ \E size \in ElemSizes, count \in UsizeCounts, os_ok \in BOOLEAN :
          AllocUninitSliceCall(size, count, os_ok)

SpecUsize == InitUsize /\ [][NextUsize]_vars

\* C40: alloc_raw and alloc_uninit_slice either panic or return a range of
\* exactly size_of::<T>() * count bytes inside [old offset, new offset), not
\* longer than what was reserved, and never move the offset backwards, in
\* release builds as in debug builds.
C40_NoSilentWrap ==
    (ncalls > 0 /\ output.result.r.panic = "")
        => LET r == output.result.r
           IN  /\ r.len = output.result.size * output.result.count
               /\ r.ptr >= input.offset
               /\ r.ptr + r.len <= r.a.offset
               /\ r.a.offset >= input.offset
               /\ r.a.offset <= r.a.commit
               /\ r.a.commit <= r.a.capacity

\* What does hold: a debug build panics rather than wrap.
NoSilentWrapInDebug == debug => C40_NoSilentWrap

====
